---- MODULE Spec2Model ----
(***************************************************************************)
(* Badge-evaluation engine of the LogLynx backend: the badge catalog, the  *)
(* alias table, the statistics aggregator, the evaluator, the progress     *)
(* calculator and the user_badges store accessor, together with the CRUD   *)
(* handlers that change the data the statistics are computed from.         *)
(*                                                                         *)
(* Strings are TLA+ strings.  JavaScript numbers are integers (every       *)
(* number of the model is an integer that a double represents exactly).    *)
(* Timestamps count hours, not milliseconds (TLC's integers have 32 bits): *)
(* every instant of the model is a whole number of hours.                  *)
(***************************************************************************)
EXTENDS Integers, Sequences, FiniteSets, TLC

(***************************************************************************)
(* JavaScript values that are not strings, and the markers of a thrown     *)
(* error.                                                                  *)
(***************************************************************************)
Undefined == "<undefined>"
FunctionObject == "<function Object>"
ObjectPrototype == "<Object.prototype>"
NonStrings == {FunctionObject, ObjectPrototype}
TypeError == "<TypeError>"
Null == "<null>"
NoDoc == [exists |-> FALSE]
NoField == "<no field>"

(***************************************************************************)
(* String.prototype.toLowerCase on the strings of the model: the table     *)
(* lists every string of the model that has an upper-case letter, with its *)
(* lower-case form; a string without upper-case letters is unchanged.      *)
(***************************************************************************)
UpperToLower ==
    ("FIRST_STEPS" :> "first_steps")
 @@ ("First_steps" :> "first_steps")
 @@ ("FIRST_BIKE" :> "first_bike")
 @@ ("First_bike" :> "first_bike")
 @@ ("KM_100" :> "km_100")
 @@ ("Km_100" :> "km_100")
 @@ ("HUNDRED_KM" :> "hundred_km")
 @@ ("Hundred_km" :> "hundred_km")
 @@ ("KM_500" :> "km_500")
 @@ ("Km_500" :> "km_500")
 @@ ("KM_1000" :> "km_1000")
 @@ ("Km_1000" :> "km_1000")
 @@ ("THOUSAND_KM" :> "thousand_km")
 @@ ("Thousand_km" :> "thousand_km")
 @@ ("KM_2000" :> "km_2000")
 @@ ("Km_2000" :> "km_2000")
 @@ ("DISTANCE_MASTER" :> "distance_master")
 @@ ("Distance_master" :> "distance_master")
 @@ ("BIKE_OWNER" :> "bike_owner")
 @@ ("Bike_owner" :> "bike_owner")
 @@ ("BIKE_COLLECTOR" :> "bike_collector")
 @@ ("Bike_collector" :> "bike_collector")
 @@ ("MAINTENANCE_MASTER" :> "maintenance_master")
 @@ ("Maintenance_master" :> "maintenance_master")
 @@ ("MAINTENANCE_EXPERT" :> "maintenance_expert")
 @@ ("Maintenance_expert" :> "maintenance_expert")
 @@ ("COMPONENT_MASTER" :> "component_master")
 @@ ("Component_master" :> "component_master")
 @@ ("BIG_SPENDER" :> "big_spender")
 @@ ("Big_spender" :> "big_spender")
 @@ ("DEDICATED_RIDER" :> "dedicated_rider")
 @@ ("Dedicated_rider" :> "dedicated_rider")
 @@ ("FIRST_RIDE" :> "first_ride")
 @@ ("First_ride" :> "first_ride")
 @@ ("CENTURY" :> "century")
 @@ ("Century" :> "century")
 @@ ("HALF_MARATHON" :> "half_marathon")
 @@ ("Half_marathon" :> "half_marathon")
 @@ ("MARATHON" :> "marathon")
 @@ ("Marathon" :> "marathon")
 @@ ("ULTRA_MARATHON" :> "ultra_marathon")
 @@ ("Ultra_marathon" :> "ultra_marathon")
 @@ ("COMPONENT_EXPERT" :> "component_expert")
 @@ ("Component_expert" :> "component_expert")
 @@ ("MYSTERY_BADGE" :> "mystery_badge")
 @@ ("Mystery_badge" :> "mystery_badge")
 @@ ("CONSTRUCTOR" :> "constructor")
 @@ ("Constructor" :> "constructor")

toLowerCase(s) == IF s \in DOMAIN UpperToLower THEN UpperToLower[s] ELSE s

\* Every string of the model whose lower-case form is s (s included).
CaseVariants(s) == {s} \cup {k \in DOMAIN UpperToLower : UpperToLower[k] = s}

(***************************************************************************)
(* BADGE_ID_ALIASES: the own properties of the object literal.             *)
(***************************************************************************)
BADGE_ID_ALIASES ==
    ("first_steps" :> "first_ride")
 @@ ("first_bike" :> "first_ride")
 @@ ("km_100" :> "century")
 @@ ("hundred_km" :> "century")
 @@ ("km_500" :> "half_marathon")
 @@ ("km_1000" :> "marathon")
 @@ ("thousand_km" :> "marathon")
 @@ ("km_2000" :> "ultra_marathon")
 @@ ("distance_master" :> "ultra_marathon")
 @@ ("bike_owner" :> "bike_collector")
 @@ ("bike_collector" :> "bike_collector")
 @@ ("maintenance_master" :> "maintenance_master")
 @@ ("maintenance_expert" :> "maintenance_master")
 @@ ("component_master" :> "component_expert")
 @@ ("big_spender" :> "big_spender")
 @@ ("dedicated_rider" :> "dedicated_rider")

(***************************************************************************)
(* BADGE_ID_ALIASES[key]: a property read on a plain object.  A key that   *)
(* is no own property is looked up on Object.prototype, whose only         *)
(* properties with a name free of upper-case letters are "constructor"     *)
(* (the function Object) and "__proto__" (Object.prototype itself).        *)
(***************************************************************************)
AliasLookup(key) ==
    IF key \in DOMAIN BADGE_ID_ALIASES THEN BADGE_ID_ALIASES[key]
    ELSE IF key = "constructor" THEN FunctionObject
    ELSE IF key = "__proto__" THEN ObjectPrototype
    ELSE Undefined

\* JavaScript truthiness of a string, undefined or null.
Truthy(v) == v \notin {Undefined, Null, ""}

(***************************************************************************)
(* normalizeBadgeId: (requestedId || '').toLowerCase(), then the alias or  *)
(* the lower-case id.  A truthy value that is no string has no             *)
(* toLowerCase method: the call throws a TypeError.                        *)
(***************************************************************************)
normalizeBadgeId(requestedId) ==
    IF requestedId \in NonStrings THEN TypeError
    ELSE LET lower == toLowerCase(IF Truthy(requestedId) THEN requestedId ELSE "")
         IN  IF Truthy(AliasLookup(lower)) THEN AliasLookup(lower) ELSE lower

(***************************************************************************)
(* BADGE_DEFINITIONS: id and requirements of each catalog entry, in        *)
(* catalog order (name, description, icon, rarity and category are display *)
(* data no code path reads).                                               *)
(***************************************************************************)
Req(type, value) == [type |-> type, value |-> value]

BADGE_DEFINITIONS ==
    << [id |-> "first_ride",         requirements |-> << Req("total_mileage", 1) >>],
       [id |-> "century",            requirements |-> << Req("total_mileage", 100) >>],
       [id |-> "half_marathon",      requirements |-> << Req("total_mileage", 500) >>],
       [id |-> "marathon",           requirements |-> << Req("total_mileage", 1000) >>],
       [id |-> "ultra_marathon",     requirements |-> << Req("total_mileage", 2000) >>],
       [id |-> "bike_collector",     requirements |-> << Req("bike_count", 3) >>],
       [id |-> "maintenance_master", requirements |-> << Req("service_count", 10) >>],
       [id |-> "component_expert",   requirements |-> << Req("component_count", 5) >>],
       [id |-> "big_spender",        requirements |-> << Req("service_cost", 500) >>],
       [id |-> "dedicated_rider",    requirements |-> << Req("days_active", 30) >> ] >>

CatalogSize == Len(BADGE_DEFINITIONS)
CatalogIds == {BADGE_DEFINITIONS[i].id : i \in 1..CatalogSize}

\* BADGE_DEFINITIONS.find(b => b.id === id) that finds a definition for every id.
FindBadgeDefAny(id) ==
    IF \E i \in 1..CatalogSize : BADGE_DEFINITIONS[i].id = id
    THEN CHOOSE i \in 1..CatalogSize : BADGE_DEFINITIONS[i].id = id
    ELSE 1

(***************************************************************************)
(* BADGE_DEFINITIONS.find(b => b.id === id): the index of the first entry  *)
(* with that id, 0 for undefined.                                          *)
(***************************************************************************)
FindBadgeDef(id) ==
    IF \E i \in 1..CatalogSize : BADGE_DEFINITIONS[i].id = id
    THEN CHOOSE i \in 1..CatalogSize :
            /\ BADGE_DEFINITIONS[i].id = id
            /\ \A j \in 1..(i - 1) : BADGE_DEFINITIONS[j].id # id
    ELSE 0

(***************************************************************************)
(* UserStats, as getUserStats returns them.                                *)
(***************************************************************************)
ZeroStats ==
    [totalMileage |-> 0, bikeCount |-> 0, serviceCount |-> 0,
     componentCount |-> 0, totalServiceCost |-> 0, daysActive |-> 0]

\* The requirement test with > in place of >=.
RequirementMetStrict(req, stats) ==
    CASE req.type = "total_mileage"   -> stats.totalMileage > req.value
      [] req.type = "bike_count"      -> stats.bikeCount > req.value
      [] req.type = "service_count"   -> stats.serviceCount > req.value
      [] req.type = "component_count" -> stats.componentCount > req.value
      [] req.type = "service_cost"    -> stats.totalServiceCost > req.value
      [] req.type = "days_active"     -> stats.daysActive > req.value
      [] OTHER                        -> FALSE

\* The default case reading the unknown statistic as 0: ok = 0 >= req.value.
RequirementMetUnknownAsZero(req, stats) ==
    CASE req.type = "total_mileage"   -> stats.totalMileage >= req.value
      [] req.type = "bike_count"      -> stats.bikeCount >= req.value
      [] req.type = "service_count"   -> stats.serviceCount >= req.value
      [] req.type = "component_count" -> stats.componentCount >= req.value
      [] req.type = "service_cost"    -> stats.totalServiceCost >= req.value
      [] req.type = "days_active"     -> stats.daysActive >= req.value
      [] OTHER                        -> 0 >= req.value

(***************************************************************************)
(* The switch of checkAndUnlockBadges on one requirement: the statistic of *)
(* the requirement's type against its value; false for any other type.     *)
(***************************************************************************)
RequirementMet(req, stats) ==
    CASE req.type = "total_mileage"   -> stats.totalMileage >= req.value
      [] req.type = "bike_count"      -> stats.bikeCount >= req.value
      [] req.type = "service_count"   -> stats.serviceCount >= req.value
      [] req.type = "component_count" -> stats.componentCount >= req.value
      [] req.type = "service_cost"    -> stats.totalServiceCost >= req.value
      [] req.type = "days_active"     -> stats.daysActive >= req.value
      [] OTHER                        -> FALSE

\* Array.prototype.some in place of every: one met requirement is enough.
shouldUnlockSome(requirements, stats) ==
    \E i \in 1..Len(requirements) : RequirementMet(requirements[i], stats)

(***************************************************************************)
(* badgeDef.requirements.every(req => ...): the requirements are tested in *)
(* order and the first one that fails ends the test.                       *)
(***************************************************************************)
RECURSIVE EveryFrom(_, _, _)
EveryFrom(requirements, stats, i) ==
    IF i > Len(requirements) THEN TRUE
    ELSE IF ~RequirementMet(requirements[i], stats) THEN FALSE
    ELSE EveryFrom(requirements, stats, i + 1)

shouldUnlock(requirements, stats) == EveryFrom(requirements, stats, 1)

(***************************************************************************)
(* getBadgeProgress, one catalog entry: the statistic of the first         *)
(* requirement's type, and Math.min(100, Math.floor((current / value) *    *)
(* 100)) for a value above 0.                                              *)
(***************************************************************************)
CurrentOf(requirement, stats) ==
    CASE requirement.type = "total_mileage"   -> stats.totalMileage
      [] requirement.type = "bike_count"      -> stats.bikeCount
      [] requirement.type = "service_count"   -> stats.serviceCount
      [] requirement.type = "component_count" -> stats.componentCount
      [] requirement.type = "service_cost"    -> stats.totalServiceCost
      [] requirement.type = "days_active"     -> stats.daysActive
      [] OTHER                                -> 0

MathMin(a, b) == IF a <= b THEN a ELSE b

(***************************************************************************)
(* Math.floor((current / target) * 100).  The quotient and the product are *)
(* doubles, each rounded to the nearest double.  When target divides       *)
(* current the quotient is exact, and so is the product; when current *    *)
(* 100 / target is no integer the rounding errors (below 1e-13) cannot     *)
(* carry the product over an integer.  When current * 100 / target is an   *)
(* integer k and current / target is none, the product is k or a double    *)
(* next to k.  InexactPercents lists the k from -250 to 100 for which      *)
(* Math.floor gives k - 1: 29 / 100 * 100 is 28.999999999999996, and       *)
(* -7 / 100 * 100 is -7.000000000000001.                                   *)
(***************************************************************************)
InexactPercents ==
    {-249, -247, -245, -243, -224, -222, -220, -218, -112, -111, -110, -109,
     -56, -55, -28, -14, -7, 29, 57, 58}

FloorOfPercent(current, target) ==
    LET k == (current * 100) \div target
    IN  IF /\ current % target # 0
           /\ (current * 100) % target = 0
           /\ k \in InexactPercents
        THEN k - 1
        ELSE k

\* Math.min(99, ...) in place of Math.min(100, ...).
PercentageBelow100(current, target) == MathMin(99, FloorOfPercent(current, target))

\* The doubles NaN and -Infinity, as two integers no other computation of
\* the model yields.
NaN == -2147483647
MinusInfinity == -2147483646

(***************************************************************************)
(* Math.min(100, Math.floor((current / target) * 100)).  A division by 0   *)
(* does not throw: current / 0 is Infinity, -Infinity or (0 / 0) NaN, and  *)
(* the product and Math.floor leave these as they are; Math.min(100,       *)
(* Infinity) is 100, Math.min(100, -Infinity) is -Infinity and             *)
(* Math.min(100, NaN) is NaN.                                              *)
(***************************************************************************)
Percentage(current, target) ==
    IF target # 0 THEN MathMin(100, FloorOfPercent(current, target))
    ELSE IF current > 0 THEN 100
    ELSE IF current < 0 THEN MinusInfinity
    ELSE NaN

ProgressEntry(badgeDef, stats) ==
    LET requirement == badgeDef.requirements[1]
        current == CurrentOf(requirement, stats)
    IN  [badgeId |-> badgeDef.id, current |-> current,
         target |-> requirement.value,
         percentage |-> Percentage(current, requirement.value)]

RECURSIVE ProgressFrom(_, _)
ProgressFrom(i, stats) ==
    IF i > CatalogSize THEN << >>
    ELSE IF Len(BADGE_DEFINITIONS[i].requirements) = 0 THEN ProgressFrom(i + 1, stats)
    ELSE << ProgressEntry(BADGE_DEFINITIONS[i], stats) >> \o ProgressFrom(i + 1, stats)

(***************************************************************************)
(* Bounds of the model.                                                    *)
(***************************************************************************)
MaxBikes == 3
MaxLogs == 10
MaxComps == 5
MaxEvents == 1
MaxCalls == 2
MaxFailures == 4
MaxRides == 2

Users == {"u1", "u2"}
Procs == {1, 2}
BikeIds == 1..MaxBikes
LogIds == 1..MaxLogs
CompIds == 1..MaxComps

\* 1000 * 60 * 60 * 24 milliseconds, in hours.
DayMs == (1000 * 60 * 60 * 24) \div (1000 * 60 * 60)
HalfDayMs == DayMs \div 2
\* The instants Date.now() takes, counted from 1970-01-01T00:00Z as Date.now()
\* counts them: the first one is day 20,040.
FirstInstant == 20040 * DayMs
Instants == {FirstInstant, FirstInstant + HalfDayMs}

\* Request inputs.
Mileages == {-50, 150}
MileageDeltas == {50}
Costs == {50}
RequestIds == {"first_steps", "Century", "mystery_badge", "constructor"}

VARIABLES
    bikes,          \* collection 'bikes': id -> NoDoc or [ownerUid, totalMileage]
    serviceLogs,    \* collection 'service-logs': id -> NoDoc or [userUid, bikeId, cost]
    components,     \* collection 'components': id -> NoDoc or [ownerUid]
    users,          \* collection 'users': uid -> NoDoc or [createdAt]
    user_badges,    \* collection 'user_badges': <<uid, badgeId>> -> the documents
                    \* with that uid and badgeId, in document-id order, each
                    \* [unlockedAt, progress]
    now,            \* Date.now()
    pc,             \* per request: the await it is suspended at
    op,             \* per request: [kind, uid, badgeId]
    stats,          \* per request: the statistics of getUserStats
    idx,            \* per request: position of the for-of loop in BADGE_DEFINITIONS
    unlockedBadges, \* per request: the unlockedBadges array of checkAndUnlockBadges
    userBadge,      \* per request: the userBadge object unlockBadge is about to add
    ret,            \* per request: what the call returned or threw
    failed,         \* per request: the store operations that failed in this call
    startBadges,    \* per request: user_badges when the call started
    mark,           \* per request: "plain", "repeat" (the call directly follows an
                    \* undisturbed successful check of the same user) or "dirty"
    lastClean,      \* the user whose undisturbed successful check returned last,
                    \* and the ids of the badges that check returned
    eventsLeft,     \* data changes, clock ticks and store failures still to come
    callsLeft,      \* badge requests still to come
    fnIn,           \* input of a function application
    fnOut,          \* its output
    http,           \* per request: the HTTP request it serves, the handler the
                    \* router gave it to, the result of the automatic check
                    \* and the response
    unmet,          \* per checkAndUnlockBadges request: the catalog badges whose
                    \* requirements the stored data of its user failed to meet
                    \* at some instant since the request started
    activities      \* collection 'activities': the <<userUid, stravaId>> of the
                    \* stored rides

storeVars == <<bikes, serviceLogs, components, users>>
procVars == <<pc, op, stats, idx, unlockedBadges, userBadge, ret, failed, startBadges, mark>>
fnVars == <<fnIn, fnOut>>
vars == <<bikes, serviceLogs, components, users, user_badges, now, pc, op, stats, idx,
          unlockedBadges, userBadge, ret, failed, startBadges, mark, lastClean,
          eventsLeft, callsLeft, fnIn, fnOut, http, unmet, activities>>

(***************************************************************************)
(* Documents.                                                              *)
(***************************************************************************)
Bike(ownerUid, totalMileage) ==
    [exists |-> TRUE, ownerUid |-> ownerUid, totalMileage |-> totalMileage]
\* A service log as createServiceLog writes it has no userUid field.
ServiceLog(userUid, bikeId, cost) ==
    [exists |-> TRUE, userUid |-> userUid, bikeId |-> bikeId, cost |-> cost]
Component(ownerUid) == [exists |-> TRUE, ownerUid |-> ownerUid]
\* An account record whose createdAt is a number (of milliseconds).
UserProfile(createdAt) ==
    [exists |-> TRUE, createdAt |-> createdAt, createdAtType |-> "number"]
\* The account record createOrUpdateProfile writes: createdAt is new Date(),
\* which the store keeps, and a read returns, as a Timestamp object.
StoredProfile(t) ==
    [exists |-> TRUE, createdAt |-> t, createdAtType |-> "timestamp"]

NoBadges == [k \in {} |-> << >>]

\* The userBadge object of unlockBadge with progress 0.
UserBadgeZeroProgress(t) == [unlockedAt |-> t, progress |-> 0]

\* The userBadge object of unlockBadge dated one day back.
UserBadgeStale(t) == [unlockedAt |-> t - DayMs, progress |-> 100]

\* const userBadge = { badgeId: normalizedId, unlockedAt: Date.now(), progress: 100 }
UserBadge(t) == [unlockedAt |-> t, progress |-> 100]

(***************************************************************************)
(* The user_badges collection.                                             *)
(***************************************************************************)
\* The query with a field name no document has: always empty.
QueryUserBadgeNoMatch(ub, uid, badgeId) == << >>

\* .where('uid', '==', uid).where('badgeId', '==', badgeId).get(): snapshot.docs
QueryUserBadge(ub, uid, badgeId) ==
    IF <<uid, badgeId>> \in DOMAIN ub THEN ub[<<uid, badgeId>>] ELSE << >>

InsertAt(seq, pos, x) == SubSeq(seq, 1, pos - 1) \o << x >> \o SubSeq(seq, pos, Len(seq))

\* A write to the single document user_badges/{uid}: the user's other records are lost.
AddUserBadgeKeyedByUser(ub, uid, badgeId, doc, pos) ==
    [k \in {x \in DOMAIN ub : x[1] # uid} \cup {<<uid, badgeId>>} |->
        IF k = <<uid, badgeId>> THEN << doc >> ELSE ub[k]]

(***************************************************************************)
(* db.collection('user_badges').add({uid, ...userBadge}): a new document   *)
(* under an auto-generated id, which places it anywhere (pos) among the    *)
(* documents of the same uid and badgeId.                                  *)
(***************************************************************************)
AddUserBadge(ub, uid, badgeId, doc, pos) ==
    [k \in DOMAIN ub \cup {<<uid, badgeId>>} |->
        IF k = <<uid, badgeId>>
        THEN InsertAt(QueryUserBadge(ub, uid, badgeId), pos, doc)
        ELSE ub[k]]

\* new CustomError(message, statusCode, code), thrown.
CustomError(message, statusCode, code) ==
    [error |-> code, statusCode |-> statusCode, message |-> message]
IsError(v) == "error" \in DOMAIN v
Ok(value) == [value |-> value]
NoRet == [none |-> TRUE]
\* getUserBadge's results: null, or {badgeId, unlockedAt, progress}.
NullBadge == [found |-> FALSE]
FoundBadge(badgeId, doc) ==
    [found |-> TRUE, badgeId |-> badgeId, unlockedAt |-> doc.unlockedAt,
     progress |-> doc.progress]

\* getUserBadge with a catch that returns null: a failed query reads as
\* "no record".
getUserBadgeOrNull(ub, uid, badgeId, storeOk) ==
    LET normalizedId == normalizeBadgeId(badgeId)
        docs == QueryUserBadge(ub, uid, normalizedId)
    IN  IF normalizedId = TypeError \/ normalizedId = FunctionObject \/ ~storeOk
        THEN NullBadge
        ELSE IF Len(docs) = 0 THEN NullBadge
        ELSE FoundBadge(normalizedId, docs[1])

(***************************************************************************)
(* getUserBadge(uid, badgeId) against store contents ub; storeOk says      *)
(* whether the query succeeds.  Every throw inside the try block (the      *)
(* TypeError of normalizeBadgeId on a non-string, the rejection of a       *)
(* function as query value, a failing query) is caught and rethrown as     *)
(* 500 DATABASE_ERROR.  Object.prototype as query value is an empty map,   *)
(* which no stored badgeId equals.                                         *)
(***************************************************************************)
getUserBadge(ub, uid, badgeId, storeOk) ==
    LET normalizedId == normalizeBadgeId(badgeId)
        docs == QueryUserBadge(ub, uid, normalizedId)
    IN  IF normalizedId = TypeError \/ normalizedId = FunctionObject \/ ~storeOk
        THEN CustomError("Failed to get user badge", 500, "DATABASE_ERROR")
        ELSE IF Len(docs) = 0 THEN NullBadge
        ELSE FoundBadge(normalizedId, docs[1])

(***************************************************************************)
(* getUserStats: the four queries and what is computed from each.          *)
(***************************************************************************)
\* db.collection('bikes').get() without the ownerUid filter.
BikesOfAnyOwner(bk, uid) == {i \in DOMAIN bk : bk[i].exists}

\* db.collection('bikes').where('ownerUid', '==', uid).get()
BikesOf(bk, uid) == {i \in DOMAIN bk : bk[i].exists /\ bk[i].ownerUid = uid}

\* db.collectionGroup('service-logs').where('userUid', '==', uid).get()
ServiceLogsOf(sl, uid) == {i \in DOMAIN sl : sl[i].exists /\ sl[i].userUid = uid}

\* db.collection('components').where('ownerUid', '==', uid).get()
ComponentsOf(cp, uid) == {i \in DOMAIN cp : cp[i].exists /\ cp[i].ownerUid = uid}

\* bikes.reduce((sum, bike) => sum + (bike.totalMileage || 0), 0)
RECURSIVE SumTotalMileage(_, _)
SumTotalMileage(bk, ids) ==
    IF ids = {} THEN 0
    ELSE LET i == CHOOSE j \in ids : TRUE
         IN  bk[i].totalMileage + SumTotalMileage(bk, ids \ {i})

\* serviceLogs.reduce((sum, log) => sum + (log.cost || 0), 0)
RECURSIVE SumCost(_, _)
SumCost(sl, ids) ==
    IF ids = {} THEN 0
    ELSE LET i == CHOOSE j \in ids : TRUE
         IN  sl[i].cost + SumCost(sl, ids \ {i})

(***************************************************************************)
(* userData?.createdAt ? Math.floor((Date.now() - userData.createdAt) /    *)
(* DayMs) : 0.  The subtraction converts its operands to numbers.  A       *)
(* Timestamp object converts through its valueOf(), the string of its      *)
(* seconds counted from 0001-01-01T00:00Z (719,162 days before 1970) and   *)
(* its nanoseconds as decimals; the string converts to that number of      *)
(* seconds, which is subtracted from the milliseconds of Date.now().  In   *)
(* hours: (3600000 t - 3600 (createdAt + 719162 DayMs)) / (3600000 DayMs). *)
(***************************************************************************)
DaysActive(userDoc, t) ==
    IF ~userDoc.exists \/ "createdAt" \notin DOMAIN userDoc THEN 0
    ELSE IF userDoc.createdAtType = "timestamp"
    THEN (1000 * t - (userDoc.createdAt + 719162 * DayMs)) \div (1000 * DayMs)
    ELSE IF userDoc.createdAt = 0 THEN 0
    ELSE (t - userDoc.createdAt) \div DayMs

\* The bikes query answered from a cache that was never filled.
StatsAfterBikesCached(st, bk, uid, storeOk) == st

\* Each query sits in its own try/catch: a failed query leaves the initial
\* value ([] or 0) of what it was to set.
StatsAfterBikes(st, bk, uid, storeOk) ==
    IF storeOk
    THEN [st EXCEPT !.totalMileage = SumTotalMileage(bk, BikesOf(bk, uid)),
                    !.bikeCount = Cardinality(BikesOf(bk, uid))]
    ELSE [st EXCEPT !.totalMileage = 0, !.bikeCount = 0]

StatsAfterServiceLogs(st, sl, uid, storeOk) ==
    IF storeOk
    THEN [st EXCEPT !.serviceCount = Cardinality(ServiceLogsOf(sl, uid)),
                    !.totalServiceCost = SumCost(sl, ServiceLogsOf(sl, uid))]
    ELSE [st EXCEPT !.serviceCount = 0, !.totalServiceCost = 0]

StatsAfterComponents(st, cp, uid, storeOk) ==
    IF storeOk
    THEN [st EXCEPT !.componentCount = Cardinality(ComponentsOf(cp, uid))]
    ELSE [st EXCEPT !.componentCount = 0]

StatsAfterUserDoc(st, us, uid, t, storeOk) ==
    IF storeOk
    THEN [st EXCEPT !.daysActive = DaysActive(us[uid], t)]
    ELSE [st EXCEPT !.daysActive = 0]

(***************************************************************************)
(* The statistics of a user as the stored data have them at instant t: the *)
(* user's bikes, service logs and components, and the whole days since the *)
(* createdAt of the account record.                                        *)
(***************************************************************************)
StoredStats(uid, bk, sl, cp, us, t) ==
    LET myBikes == {i \in DOMAIN bk : bk[i].exists /\ bk[i].ownerUid = uid}
        myLogs == {i \in DOMAIN sl : sl[i].exists /\ sl[i].userUid = uid}
        myComps == {i \in DOMAIN cp : cp[i].exists /\ cp[i].ownerUid = uid}
    IN  [totalMileage |-> SumTotalMileage(bk, myBikes),
         bikeCount |-> Cardinality(myBikes),
         serviceCount |-> Cardinality(myLogs),
         componentCount |-> Cardinality(myComps),
         totalServiceCost |-> SumCost(sl, myLogs),
         daysActive |-> IF us[uid].exists THEN (t - us[uid].createdAt) \div DayMs ELSE 0]

\* The statistic a requirement type names.
StatField ==
    ("total_mileage" :> "totalMileage") @@ ("bike_count" :> "bikeCount")
 @@ ("service_count" :> "serviceCount") @@ ("component_count" :> "componentCount")
 @@ ("service_cost" :> "totalServiceCost") @@ ("days_active" :> "daysActive")

\* The catalog badges with a requirement those statistics do not meet.
Unmet(uid, bk, sl, cp, us, t) ==
    LET st == StoredStats(uid, bk, sl, cp, us, t)
    IN  {BADGE_DEFINITIONS[i].id : i \in
            {j \in 1..CatalogSize :
                \E r \in 1..Len(BADGE_DEFINITIONS[j].requirements) :
                    LET req == BADGE_DEFINITIONS[j].requirements[r]
                    IN  st[StatField[req.type]] < req.value}}

(***************************************************************************)
(* Requests.  A request is suspended at an await (pc); a step runs it from *)
(* that await to the next one.                                             *)
(***************************************************************************)
Idle(p) == pc[p] = "idle"
OthersIdle(p) == \A q \in Procs \ {p} : Idle(q)
AllIdle == \A q \in Procs : Idle(q)

Call(kind, uid, badgeId) == [kind |-> kind, uid |-> uid, badgeId |-> badgeId]
NoCall == Call("none", "", "")
NoUserBadge == [badgeId |-> "", unlockedAt |-> 0, progress |-> 0]

\* The locals of request p after a step; newFailures are the store operations
\* that failed in the step.
SetLocal(p, npc, nidx, nunlocked, nuserBadge, nret, newFailures) ==
    /\ pc' = [pc EXCEPT ![p] = npc]
    /\ idx' = [idx EXCEPT ![p] = nidx]
    /\ unlockedBadges' = [unlockedBadges EXCEPT ![p] = nunlocked]
    /\ userBadge' = [userBadge EXCEPT ![p] = nuserBadge]
    /\ ret' = [ret EXCEPT ![p] = nret]
    /\ failed' = [failed EXCEPT ![p] = @ \cup newFailures]
    /\ mark' = [mark EXCEPT ![p] = IF newFailures = {} THEN @ ELSE "dirty"]
    /\ eventsLeft' = eventsLeft - Cardinality(newFailures)

\* The outcomes of a store operation: it succeeds, or (while failures remain) fails.
StoreOutcomes == IF eventsLeft > 0 THEN BOOLEAN ELSE {TRUE}

\* No undisturbed successful check has returned last.
NoClean == [uid |-> Null, unlocked |-> << >>]

Disturb ==
    /\ mark' = [q \in Procs |-> IF Idle(q) THEN mark[q] ELSE "dirty"]
    /\ lastClean' = NoClean

(***************************************************************************)
(* A badge request starts and runs to its first await.  Requests are alike *)
(* whatever slot of Procs they run in: a new one takes the lowest idle     *)
(* slot.  uids and badgeIds are what the callers pass.                     *)
(***************************************************************************)
\* The call directly follows an undisturbed successful check of the same user.
Follows(kind, uid) ==
    kind \in {"checkAndUnlockBadges", "getBadgeProgress"} /\ lastClean.uid = uid

Begin(p, kind, uid, badgeId) ==
    /\ Idle(p)
    /\ \A q \in Procs : q < p => ~Idle(q)
    /\ callsLeft > 0
    /\ callsLeft' = callsLeft - 1
    /\ op' = [op EXCEPT ![p] = Call(kind, uid, badgeId)]
    /\ pc' = [pc EXCEPT ![p] =
                CASE kind \in {"checkAndUnlockBadges", "getBadgeProgress"} -> "bikes"
                  [] kind = "unlockBadge" -> "unlockGet"
                  [] kind = "getUserBadge" -> "getQuery"
                  [] kind = "getUserBadges" -> "listQuery"
                  [] kind = "getAllBadges" -> "allBadges"]
    /\ stats' = [stats EXCEPT ![p] = ZeroStats]
    /\ startBadges' = [startBadges EXCEPT ![p] = user_badges]
    /\ mark' = IF OthersIdle(p)
               THEN [mark EXCEPT ![p] =
                        IF Follows(kind, uid) THEN "repeat" ELSE "plain"]
               ELSE [q \in Procs |-> IF q = p \/ ~Idle(q) THEN "dirty" ELSE mark[q]]
    /\ lastClean' = IF OthersIdle(p) /\ Follows(kind, uid) THEN lastClean ELSE NoClean
    /\ unmet' = [unmet EXCEPT ![p] =
                    IF kind = "checkAndUnlockBadges"
                    THEN Unmet(uid, bikes, serviceLogs, components, users, now)
                    ELSE {}]
    /\ UNCHANGED <<storeVars, user_badges, now, idx, unlockedBadges, userBadge, ret,
                   failed, eventsLeft, fnVars, activities>>

\* A call of the service that no HTTP request stands behind.
Start(p, kind, uid, badgeId) == Begin(p, kind, uid, badgeId) /\ UNCHANGED http

StartCheckAndUnlockBadges(p, uids) ==
    \E uid \in uids : Start(p, "checkAndUnlockBadges", uid, "")

StartGetBadgeProgress(p, uids) ==
    \E uid \in uids : Start(p, "getBadgeProgress", uid, "")

StartUnlockBadge(p, uids, badgeIds) ==
    \E uid \in uids, badgeId \in badgeIds : Start(p, "unlockBadge", uid, badgeId)

StartGetUserBadge(p, uids, badgeIds) ==
    \E uid \in uids, badgeId \in badgeIds : Start(p, "getUserBadge", uid, badgeId)

StartGetUserBadges(p, uids) ==
    \E uid \in uids : Start(p, "getUserBadges", uid, "")

StartGetAllBadges(p) == Start(p, "getAllBadges", "", "")

(***************************************************************************)
(* getUserStats, one query per step.                                       *)
(***************************************************************************)
\* One query of getUserStats that also writes the time of the read to the
\* account record.
StatsStepTouching(p, at, next, nstats, storeOk, source) ==
    /\ pc[p] = at
    /\ stats' = [stats EXCEPT ![p] = nstats]
    /\ SetLocal(p, next, idx[p], unlockedBadges[p], userBadge[p], ret[p],
                IF storeOk THEN {} ELSE {source})
    /\ users' = [users EXCEPT ![op[p].uid] = StoredProfile(now)]
    /\ UNCHANGED <<bikes, serviceLogs, components, user_badges, now, op, startBadges,
                   lastClean, callsLeft, fnVars, http, unmet, activities>>

StatsStep(p, at, next, nstats, storeOk, source) ==
    /\ pc[p] = at
    /\ stats' = [stats EXCEPT ![p] = nstats]
    /\ SetLocal(p, next, idx[p], unlockedBadges[p], userBadge[p], ret[p],
                IF storeOk THEN {} ELSE {source})
    /\ UNCHANGED <<storeVars, user_badges, now, op, startBadges, lastClean, callsLeft,
                   fnVars, http, unmet, activities>>

ReadBikes(p) ==
    \E storeOk \in StoreOutcomes :
        StatsStep(p, "bikes", "serviceLogs",
                  StatsAfterBikes(stats[p], bikes, op[p].uid, storeOk), storeOk, "bikes")

ReadServiceLogs(p) ==
    \E storeOk \in StoreOutcomes :
        StatsStep(p, "serviceLogs", "components",
                  StatsAfterServiceLogs(stats[p], serviceLogs, op[p].uid, storeOk),
                  storeOk, "service-logs")

ReadComponents(p) ==
    \E storeOk \in StoreOutcomes :
        StatsStep(p, "components", "userDoc",
                  StatsAfterComponents(stats[p], components, op[p].uid, storeOk),
                  storeOk, "components")

\* The last query; getBadgeProgress then computes its list and returns,
\* checkAndUnlockBadges enters its loop and awaits the first getUserBadge.
ReadUserDoc(p) ==
    \E storeOk \in StoreOutcomes :
        LET nstats == StatsAfterUserDoc(stats[p], users, op[p].uid, now, storeOk)
        IN  /\ pc[p] = "userDoc"
            /\ stats' = [stats EXCEPT ![p] = nstats]
            /\ IF op[p].kind = "getBadgeProgress"
               THEN SetLocal(p, "done", idx[p], unlockedBadges[p], userBadge[p],
                             Ok(ProgressFrom(1, nstats)),
                             IF storeOk THEN {} ELSE {"users"})
               ELSE SetLocal(p, "loopGet", 1, << >>, userBadge[p], ret[p],
                             IF storeOk THEN {} ELSE {"users"})
            /\ UNCHANGED <<storeVars, user_badges, now, op, startBadges, lastClean,
                           callsLeft, fnVars, http, unmet, activities>>

(***************************************************************************)
(* checkAndUnlockBadges: the loop over BADGE_DEFINITIONS, and unlockBadge. *)
(***************************************************************************)
\* Every request served under the uid of the first user.
CurrentUidOfFirstUser(p) == "u1"

CurrentUid(p) == op[p].uid

\* The id unlockBadge is called with: the loop's badgeDef.id, or the caller's.
CurrentBadgeId(p) ==
    IF op[p].kind = "checkAndUnlockBadges" THEN BADGE_DEFINITIONS[idx[p]].id
    ELSE op[p].badgeId

\* unlockedBadges.push({...badgeDef, isUnlocked: true, unlockedAt: Date.now(), progress: 100})
UnlockedBadge(id, t) ==
    [id |-> id, isUnlocked |-> TRUE, unlockedAt |-> t, progress |-> 100]

Out(npc, nidx, nunlocked, nuserBadge, nret) ==
    [pc |-> npc, idx |-> nidx, unlocked |-> nunlocked, userBadge |-> nuserBadge,
     ret |-> nret]

\* The loop moves to the next catalog entry, or ends and the call returns.
Continue(p, nunlocked) ==
    IF idx[p] = CatalogSize
    THEN Out("done", idx[p], nunlocked, NoUserBadge, Ok(nunlocked))
    ELSE Out("loopGet", idx[p] + 1, nunlocked, NoUserBadge, NoRet)

\* unlockBadge returned true.
UnlockReturns(p) ==
    IF op[p].kind = "checkAndUnlockBadges"
    THEN Continue(p, Append(unlockedBadges[p], UnlockedBadge(CurrentBadgeId(p), now)))
    ELSE Out("done", idx[p], unlockedBadges[p], NoUserBadge, Ok(TRUE))

\* unlockBadge threw: its catch rethrows every error (the 404 BADGE_NOT_FOUND
\* too) as 500 DATABASE_ERROR, and the catch of checkAndUnlockBadges rethrows
\* that as its own.
UnlockThrows(p) ==
    Out("done", idx[p], unlockedBadges[p], NoUserBadge,
        IF op[p].kind = "checkAndUnlockBadges"
        THEN CustomError("Failed to check badges", 500, "DATABASE_ERROR")
        ELSE CustomError("Failed to unlock badge", 500, "DATABASE_ERROR"))

Apply(p, out, newFailures) ==
    SetLocal(p, out.pc, out.idx, out.unlocked, out.userBadge, out.ret, newFailures)

\* await badgeService.getUserBadge(uid, badgeDef.id) in the loop, then the
\* requirement test, up to the await inside unlockBadge.
LoopGet(p) ==
    /\ pc[p] = "loopGet"
    /\ \E storeOk \in StoreOutcomes :
        LET badgeDef == BADGE_DEFINITIONS[idx[p]]
            existingBadge == getUserBadge(user_badges, CurrentUid(p), badgeDef.id, storeOk)
        IN  Apply(p,
                  IF IsError(existingBadge)
                  THEN Out("done", idx[p], unlockedBadges[p], NoUserBadge,
                           CustomError("Failed to check badges", 500, "DATABASE_ERROR"))
                  ELSE IF existingBadge.found THEN Continue(p, unlockedBadges[p])
                  ELSE IF shouldUnlock(badgeDef.requirements, stats[p])
                  THEN Out("unlockGet", idx[p], unlockedBadges[p], NoUserBadge, NoRet)
                  ELSE Continue(p, unlockedBadges[p]),
                  IF storeOk THEN {} ELSE {"user_badges"})
    /\ UNCHANGED <<storeVars, user_badges, now, op, stats, startBadges, lastClean,
                   callsLeft, fnVars, http, unmet, activities>>

\* unlockBadge: normalizeBadgeId, await getUserBadge(uid, normalizedId), the
\* catalog lookup and the userBadge object, up to the await of add.
UnlockGet(p) ==
    /\ pc[p] = "unlockGet"
    /\ \E storeOk \in StoreOutcomes :
        LET normalizedId == normalizeBadgeId(CurrentBadgeId(p))
            existingBadge ==
                IF normalizedId = TypeError
                THEN CustomError("Failed to unlock badge", 500, "DATABASE_ERROR")
                ELSE getUserBadge(user_badges, CurrentUid(p), normalizedId, storeOk)
        IN  Apply(p,
                  IF IsError(existingBadge) THEN UnlockThrows(p)
                  ELSE IF existingBadge.found THEN UnlockReturns(p)
                  ELSE IF FindBadgeDef(normalizedId) = 0 THEN UnlockThrows(p)
                  ELSE Out("unlockAdd", idx[p], unlockedBadges[p],
                           [badgeId |-> normalizedId] @@ UserBadge(now), NoRet),
                  IF storeOk THEN {} ELSE {"user_badges"})
    /\ UNCHANGED <<storeVars, user_badges, now, op, stats, startBadges, lastClean,
                   callsLeft, fnVars, http, unmet, activities>>

\* await db.collection('user_badges').add({uid, ...userBadge, createdAt})
UnlockAdd(p) ==
    /\ pc[p] = "unlockAdd"
    /\ \/ /\ \E pos \in 1..(Len(QueryUserBadge(user_badges, CurrentUid(p),
                                               userBadge[p].badgeId)) + 1) :
                user_badges' = AddUserBadge(user_badges, CurrentUid(p),
                                            userBadge[p].badgeId,
                                            [unlockedAt |-> userBadge[p].unlockedAt,
                                             progress |-> userBadge[p].progress], pos)
          /\ Apply(p, UnlockReturns(p), {})
       \/ /\ FALSE \in StoreOutcomes
          /\ UNCHANGED user_badges
          /\ Apply(p, UnlockThrows(p), {"user_badges"})
    /\ UNCHANGED <<storeVars, now, op, stats, startBadges, lastClean, callsLeft,
                   fnVars, http, unmet, activities>>

(***************************************************************************)
(* getUserBadge and getUserBadges as requests of their own.                *)
(***************************************************************************)
GetQuery(p) ==
    /\ pc[p] = "getQuery"
    /\ \E storeOk \in StoreOutcomes :
        LET badge == getUserBadge(user_badges, CurrentUid(p), op[p].badgeId, storeOk)
        IN  Apply(p, Out("done", idx[p], unlockedBadges[p], NoUserBadge,
                         IF IsError(badge) THEN badge ELSE Ok(badge)),
                  IF storeOk THEN {} ELSE {"user_badges"})
    /\ UNCHANGED <<storeVars, user_badges, now, op, stats, startBadges, lastClean,
                   callsLeft, fnVars, http, unmet, activities>>

\* getAllBadges: return BADGE_DEFINITIONS.
AllBadges(p) ==
    /\ pc[p] = "allBadges"
    /\ Apply(p, Out("done", idx[p], unlockedBadges[p], NoUserBadge,
                    Ok(BADGE_DEFINITIONS)), {})
    /\ UNCHANGED <<storeVars, user_badges, now, op, stats, startBadges, lastClean,
                   callsLeft, fnVars, http, unmet, activities>>

\* getUserBadges that finds no document.
UserBadgesFromNone(ub, uid, i) == << >>

\* The documents of one catalog badge as getUserBadges returns them.
AsBadges(id, docs) ==
    [j \in 1..Len(docs) |->
        [id |-> id, isUnlocked |-> TRUE, unlockedAt |-> docs[j].unlockedAt,
         progress |-> docs[j].progress]]

\* getUserBadges: the documents of uid whose badgeId is in the catalog.  The
\* snapshot is in document-id order; the list is given here by catalog entry.
RECURSIVE UserBadgesFrom(_, _, _)
UserBadgesFrom(ub, uid, i) ==
    IF i > CatalogSize THEN << >>
    ELSE AsBadges(BADGE_DEFINITIONS[i].id, QueryUserBadge(ub, uid, BADGE_DEFINITIONS[i].id))
         \o UserBadgesFrom(ub, uid, i + 1)

ListQuery(p) ==
    /\ pc[p] = "listQuery"
    /\ \E storeOk \in StoreOutcomes :
        Apply(p, Out("done", idx[p], unlockedBadges[p], NoUserBadge,
                     IF storeOk THEN Ok(UserBadgesFrom(user_badges, CurrentUid(p), 1))
                     ELSE CustomError("Failed to get user badges", 500, "DATABASE_ERROR")),
              IF storeOk THEN {} ELSE {"user_badges"})
    /\ UNCHANGED <<storeVars, user_badges, now, op, stats, startBadges, lastClean,
                   callsLeft, fnVars, http, unmet, activities>>

\* The request is over.
Finish(p) ==
    /\ pc' = [pc EXCEPT ![p] = "idle"]
    /\ op' = [op EXCEPT ![p] = NoCall]
    /\ stats' = [stats EXCEPT ![p] = ZeroStats]
    /\ idx' = [idx EXCEPT ![p] = 0]
    /\ unlockedBadges' = [unlockedBadges EXCEPT ![p] = << >>]
    /\ userBadge' = [userBadge EXCEPT ![p] = NoUserBadge]
    /\ ret' = [ret EXCEPT ![p] = NoRet]
    /\ failed' = [failed EXCEPT ![p] = {}]
    /\ startBadges' = [startBadges EXCEPT ![p] = NoBadges]
    /\ mark' = [mark EXCEPT ![p] = "plain"]
    /\ lastClean' = IF /\ op[p].kind = "checkAndUnlockBadges"
                       /\ ~IsError(ret[p])
                       /\ mark[p] # "dirty"
                    THEN [uid |-> op[p].uid,
                          unlocked |-> [j \in 1..Len(ret[p].value) |-> ret[p].value[j].id]]
                    ELSE NoClean
    /\ unmet' = [unmet EXCEPT ![p] = {}]
    /\ UNCHANGED <<storeVars, user_badges, now, eventsLeft, callsLeft, fnVars, activities>>

\* The caller of the service has the result.
Return(p) ==
    /\ pc[p] = "done"
    /\ Finish(p)
    /\ UNCHANGED http

(***************************************************************************)
(* The HTTP layer of the badge endpoints: the router, mounted behind the   *)
(* authentication middleware under /api/v1/users, and the controller.  A   *)
(* request is its method, the segments of its path below the mount point,  *)
(* the uid of the verified token (req.user.uid) and its parsed JSON body.  *)
(***************************************************************************)
Request(method, path, user, body) ==
    [method |-> method, path |-> path, user |-> user, body |-> body]
Body(badgeId) == [badgeId |-> badgeId]

Route(method, path, handler) == [method |-> method, path |-> path, handler |-> handler]

\* The routes of the badge router, in the order of their registration.
BadgeRoutes ==
    << Route("GET", << >>, "getAllBadges"),
       Route("GET", << ":uid", "badges" >>, "getUserBadges"),
       Route("GET", << ":uid", "badges", ":badgeId" >>, "getUserBadge"),
       Route("POST", << ":uid", "badges" >>, "unlockBadge"),
       Route("POST", << ":uid", "badges", "check" >>, "checkBadges"),
       Route("GET", << ":uid", "badges", "progress" >>, "getBadgeProgress") >>

IsParam(segment) == segment \in {":uid", ":badgeId"}

\* A route matches a request of its method whose path has the route's
\* segments, any value in the place of a parameter.
Matches(route, method, path) ==
    /\ route.method = method
    /\ Len(route.path) = Len(path)
    /\ \A i \in 1..Len(path) : IsParam(route.path[i]) \/ route.path[i] = path[i]

\* The router gives the request to the first route that matches: its index,
\* 0 when none does.
MatchRoute(method, path) ==
    IF \E r \in 1..Len(BadgeRoutes) : Matches(BadgeRoutes[r], method, path)
    THEN CHOOSE r \in 1..Len(BadgeRoutes) :
            /\ Matches(BadgeRoutes[r], method, path)
            /\ \A q \in 1..(r - 1) : ~Matches(BadgeRoutes[q], method, path)
    ELSE 0

\* req.params[name]
Param(route, path, name) ==
    IF \E i \in 1..Len(path) : route.path[i] = name
    THEN path[CHOOSE i \in 1..Len(path) : route.path[i] = name]
    ELSE Undefined

\* The check left out: every caller passes.
AuthorizedAnyone(uid, currentUserUid) == TRUE

\* if (uid !== currentUserUid) throw 403 UNAUTHORIZED
Authorized(uid, currentUserUid) == uid = currentUserUid

\* The check left out: every badgeId passes.
MissingInputNever(badgeId) == FALSE

\* if (!badgeId) throw 400 INVALID_INPUT
MissingInput(badgeId) == ~Truthy(badgeId)

\* The badgeId a handler reads: req.body of unlockBadge, req.params otherwise.
BadgeIdOf(route, req) ==
    IF route.handler = "unlockBadge" THEN req.body.badgeId
    ELSE Param(route, req.path, ":badgeId")

\* The service call a handler awaits first.
ServiceCall(handler) ==
    CASE handler = "getUserBadges" -> "checkAndUnlockBadges"
      [] handler = "getUserBadge" -> "getUserBadge"
      [] handler = "unlockBadge" -> "unlockBadge"
      [] handler = "checkBadges" -> "checkAndUnlockBadges"
      [] handler = "getBadgeProgress" -> "getBadgeProgress"

\* errorHandler: res.status(statusCode).json({error: {code, message}})
ErrorResponse(err) ==
    [status |-> err.statusCode, error |-> err.error, message |-> err.message]
\* res.json({success: true, ...}): status 200
JsonResponse(body) == [status |-> 200, body |-> body]

UnauthorizedMessage(handler) ==
    CASE handler = "getUserBadges" -> "Unauthorized to access user badges"
      [] handler = "getUserBadge" -> "Unauthorized to access user badge"
      [] handler = "unlockBadge" -> "Unauthorized to unlock badge"
      [] handler = "checkBadges" -> "Unauthorized to check badges"
      [] handler = "getBadgeProgress" -> "Unauthorized to access badge progress"

\* What a handler throws before it calls the service, NoRet if nothing.
Rejection(route, req) ==
    LET handler == route.handler
        uid == Param(route, req.path, ":uid")
    IN  IF handler = "getAllBadges" THEN NoRet
        ELSE IF ~Authorized(uid, req.user)
        THEN CustomError(UnauthorizedMessage(handler), 403, "UNAUTHORIZED")
        ELSE IF /\ handler \in {"getUserBadge", "unlockBadge"}
                /\ MissingInput(BadgeIdOf(route, req))
        THEN CustomError("Badge ID is required", 400, "INVALID_INPUT")
        ELSE NoRet

\* What a handler answers once its last service call has returned or thrown
\* result: an error goes to next(error), a null badge is a 404.
Response(handler, result) ==
    IF IsError(result) THEN ErrorResponse(result)
    ELSE IF handler = "getUserBadge" /\ ~result.value.found
    THEN ErrorResponse(CustomError("Badge not found", 404, "BADGE_NOT_FOUND"))
    ELSE IF handler = "unlockBadge" /\ result.value = FALSE
    THEN ErrorResponse(CustomError("Failed to unlock badge", 500, "UNLOCK_FAILED"))
    ELSE IF handler = "unlockBadge" THEN JsonResponse("Badge unlocked successfully")
    ELSE JsonResponse(result.value)

NoRequest == Request("", << >>, "", Body(Undefined))
NoHttp == [req |-> NoRequest, handler |-> "none", autoCheck |-> NoRet, res |-> NoRet]
Serving(p) == http[p].handler # "none"

\* The request is answered without a service call: by the 404 handler of
\* the application, by getAllBadges, or by what the handler throws.
Answer(p, req, handler, res) ==
    /\ Idle(p)
    /\ \A q \in Procs : q < p => ~Idle(q)
    /\ callsLeft > 0
    /\ callsLeft' = callsLeft - 1
    /\ pc' = [pc EXCEPT ![p] = "responded"]
    /\ startBadges' = [startBadges EXCEPT ![p] = user_badges]
    /\ http' = [http EXCEPT ![p] = [req |-> req, handler |-> handler,
                                    autoCheck |-> NoRet, res |-> res]]
    /\ mark' = [q \in Procs |-> IF q = p \/ ~Idle(q) THEN "dirty" ELSE mark[q]]
    /\ lastClean' = NoClean
    /\ UNCHANGED <<storeVars, user_badges, now, op, stats, idx, unlockedBadges,
                   userBadge, ret, failed, eventsLeft, fnVars, unmet, activities>>

\* A request arrives: routing, and the handler up to its first await.
HttpReceive(p, requests) ==
    /\ Idle(p)
    /\ callsLeft > 0
    /\ \E req \in requests :
        LET r == MatchRoute(req.method, req.path)
            route == BadgeRoutes[r]
        IN  IF r = 0
            THEN Answer(p, req, "none",
                        [status |-> 404, error |-> "ENDPOINT_NOT_FOUND",
                         message |-> "Endpoint not found"])
            ELSE IF route.handler = "getAllBadges"
            THEN Answer(p, req, route.handler, JsonResponse(BADGE_DEFINITIONS))
            ELSE IF IsError(Rejection(route, req))
            THEN Answer(p, req, route.handler, ErrorResponse(Rejection(route, req)))
            ELSE /\ Begin(p, ServiceCall(route.handler), Param(route, req.path, ":uid"),
                          IF BadgeIdOf(route, req) = Undefined THEN ""
                          ELSE BadgeIdOf(route, req))
                 /\ http' = [http EXCEPT ![p] = [req |-> req, handler |-> route.handler,
                                                 autoCheck |-> NoRet, res |-> NoRet]]

\* getUserBadges of the controller: the automatic check has returned or
\* thrown (the catch logs a warning, nothing else); the handler goes on to
\* await badgeService.getUserBadges(uid).
HttpListAfterCheck(p) ==
    /\ pc[p] = "done"
    /\ http[p].handler = "getUserBadges"
    /\ op[p].kind = "checkAndUnlockBadges"
    /\ pc' = [pc EXCEPT ![p] = "listQuery"]
    /\ op' = [op EXCEPT ![p].kind = "getUserBadges"]
    /\ ret' = [ret EXCEPT ![p] = NoRet]
    /\ http' = [http EXCEPT ![p].autoCheck = ret[p]]
    /\ UNCHANGED <<storeVars, user_badges, now, stats, idx, unlockedBadges, userBadge,
                   failed, startBadges, mark, lastClean, eventsLeft, callsLeft, fnVars,
                   unmet, activities>>

\* The handler's last service call has returned or thrown: the response.
HttpRespond(p) ==
    /\ pc[p] = "done"
    /\ Serving(p)
    /\ ~(http[p].handler = "getUserBadges" /\ op[p].kind = "checkAndUnlockBadges")
    /\ pc' = [pc EXCEPT ![p] = "responded"]
    /\ http' = [http EXCEPT ![p].res = Response(http[p].handler, ret[p])]
    /\ UNCHANGED <<storeVars, user_badges, now, op, stats, idx, unlockedBadges,
                   userBadge, ret, failed, startBadges, mark, lastClean, eventsLeft,
                   callsLeft, fnVars, unmet, activities>>

\* The client has the response.
HttpEnd(p) ==
    /\ pc[p] = "responded"
    /\ Finish(p)
    /\ http' = [http EXCEPT ![p] = NoHttp]

(***************************************************************************)
(* The handlers that change the data the statistics are computed from.     *)
(* Each runs as one step: none of them touches user_badges.  A handler     *)
(* whose ownership check fails changes nothing and is left out.  A new     *)
(* document gets the first free id (document ids carry no meaning).        *)
(***************************************************************************)
Free(coll) == {i \in DOMAIN coll : ~coll[i].exists}
FirstFree(coll) == CHOOSE i \in Free(coll) : \A j \in Free(coll) : i <= j
Owns(uid, bikeId) == bikes[bikeId].exists /\ bikes[bikeId].ownerUid = uid

\* Something outside the badge requests happens: a data change, a clock tick.
Event ==
    /\ eventsLeft > 0
    /\ eventsLeft' = eventsLeft - 1
    /\ Disturb
    /\ unmet' = [q \in Procs |->
                    IF op[q].kind = "checkAndUnlockBadges"
                    THEN unmet[q] \cup Unmet(op[q].uid, bikes', serviceLogs', components',
                                             users', now')
                    ELSE unmet[q]]
    /\ UNCHANGED <<user_badges, pc, op, stats, idx, unlockedBadges, userBadge, ret,
                   failed, startBadges, callsLeft, fnVars, http, activities>>

DataOp == UNCHANGED now /\ Event

\* bikeService.createBike: totalMileage is stored as given.
CreateBike(uids) ==
    /\ Free(bikes) # {}
    /\ \E uid \in uids, totalMileage \in Mileages :
        bikes' = [bikes EXCEPT ![FirstFree(bikes)] = Bike(uid, totalMileage)]
    /\ UNCHANGED <<serviceLogs, components, users>>
    /\ DataOp

\* bikeService.updateBike with a totalMileage in the updates: stored as given.
UpdateBike(uids) ==
    /\ \E uid \in uids, bikeId \in BikeIds, totalMileage \in Mileages :
        /\ Owns(uid, bikeId)
        /\ bikes' = [bikes EXCEPT ![bikeId].totalMileage = totalMileage]
    /\ UNCHANGED <<serviceLogs, components, users>>
    /\ DataOp

\* bikeService.deleteBike
DeleteBike(uids) ==
    /\ \E uid \in uids, bikeId \in BikeIds :
        /\ Owns(uid, bikeId)
        /\ bikes' = [bikes EXCEPT ![bikeId] = NoDoc]
    /\ UNCHANGED <<serviceLogs, components, users>>
    /\ DataOp

\* bikeService.incrementMileage (the controller admits deltaMi > 0 only)
IncrementMileage(uids) ==
    /\ \E uid \in uids, bikeId \in BikeIds, deltaMi \in MileageDeltas :
        /\ Owns(uid, bikeId)
        /\ bikes' = [bikes EXCEPT ![bikeId].totalMileage = @ + deltaMi]
    /\ UNCHANGED <<serviceLogs, components, users>>
    /\ DataOp

\* serviceLogService.createServiceLog: the document has no userUid field.
CreateServiceLog(uids) ==
    /\ Free(serviceLogs) # {}
    /\ \E uid \in uids, bikeId \in BikeIds, cost \in Costs :
        /\ Owns(uid, bikeId)
        /\ serviceLogs' = [serviceLogs EXCEPT ![FirstFree(serviceLogs)] =
                              ServiceLog(NoField, bikeId, cost)]
    /\ UNCHANGED <<bikes, components, users>>
    /\ DataOp

\* serviceLogService.deleteServiceLog: the log's bike must belong to the caller.
DeleteServiceLog(uids) ==
    /\ \E uid \in uids, logId \in LogIds :
        /\ serviceLogs[logId].exists
        /\ Owns(uid, serviceLogs[logId].bikeId)
        /\ serviceLogs' = [serviceLogs EXCEPT ![logId] = NoDoc]
    /\ UNCHANGED <<bikes, components, users>>
    /\ DataOp

\* componentService.createComponent
CreateComponent(uids) ==
    /\ Free(components) # {}
    /\ \E uid \in uids :
        components' = [components EXCEPT ![FirstFree(components)] = Component(uid)]
    /\ UNCHANGED <<bikes, serviceLogs, users>>
    /\ DataOp

\* componentService.deleteComponent
DeleteComponent(uids) ==
    /\ \E uid \in uids, componentId \in CompIds :
        /\ components[componentId].exists
        /\ components[componentId].ownerUid = uid
        /\ components' = [components EXCEPT ![componentId] = NoDoc]
    /\ UNCHANGED <<bikes, serviceLogs, users>>
    /\ DataOp

\* userService.createOrUpdateProfile (token exchange): set(..., {merge: true})
\* writes createdAt: new Date() whether or not the record exists.
CreateOrUpdateProfile(uids) ==
    /\ \E uid \in uids : users' = [users EXCEPT ![uid] = StoredProfile(now)]
    /\ UNCHANGED <<bikes, serviceLogs, components>>
    /\ DataOp

\* userService.updateProfile: userRef.update({displayName, email, lastLoginAt})
\* throws for a record that does not exist and leaves createdAt as it is.
UpdateProfile(uids) ==
    /\ \E uid \in uids :
        /\ users[uid].exists
        /\ users' = [users EXCEPT ![uid].createdAt = @]
    /\ UNCHANGED <<bikes, serviceLogs, components>>
    /\ DataOp

\* userService.updatePreferences: getProfile, then userRef.update({prefs,
\* lastLoginAt}); 404 PROFILE_NOT_FOUND for a record that does not exist.
UpdatePreferences(uids) ==
    /\ \E uid \in uids :
        /\ users[uid].exists
        /\ users' = [users EXCEPT ![uid].createdAt = @]
    /\ UNCHANGED <<bikes, serviceLogs, components>>
    /\ DataOp

\* Time passes.
Tick ==
    /\ \E t \in Instants : t > now /\ now' = t
    /\ UNCHANGED storeVars
    /\ Event

(***************************************************************************)
(* StravaService.syncActivities.  An activity of the Strava API is its id, *)
(* its type, the id of its bike (null when it has none) and its distance   *)
(* in meters.  A sync in which the API and every store operation answer    *)
(* runs to its end as one step.                                            *)
(***************************************************************************)
StravaActivity(id, type, bike_id, distance) ==
    [id |-> id, type |-> type, bike_id |-> bike_id, distance |-> distance]

\* The bike document getOrCreateStravaBike writes.
StravaBike(ownerUid, stravaBikeId, totalMileage) ==
    [exists |-> TRUE, ownerUid |-> ownerUid, totalMileage |-> totalMileage,
     stravaBikeId |-> stravaBikeId]

\* bikes.where('ownerUid', '==', uid).where('stravaBikeId', '==', stravaBikeId)
ExistingBikeQuery(bk, uid, stravaBikeId) ==
    {i \in DOMAIN bk : /\ bk[i].exists
                       /\ bk[i].ownerUid = uid
                       /\ "stravaBikeId" \in DOMAIN bk[i]
                       /\ bk[i].stravaBikeId = stravaBikeId}

\* The LogLynx bike of a Strava bike: the first document of the query, 0 if
\* it is empty.
LoglynxBikeOf(bk, uid, stravaBikeId) ==
    LET found == ExistingBikeQuery(bk, uid, stravaBikeId)
    IN  IF found = {} THEN 0 ELSE CHOOSE i \in found : \A j \in found : i <= j

\* Step 1: the Strava bike ids of the rides, each once, in the order of
\* their first ride.
RECURSIVE uniqueStravaBikeIds(_, _)
uniqueStravaBikeIds(acts, i) ==
    IF i = 0 THEN << >>
    ELSE LET before == uniqueStravaBikeIds(acts, i - 1)
             a == acts[i]
         IN  IF /\ a.type = "Ride"
                /\ Truthy(a.bike_id)
                /\ \A k \in 1..Len(before) : before[k] # a.bike_id
             THEN Append(before, a.bike_id)
             ELSE before

\* getOrCreateStravaBike: the bikes collection after the call.  A new bike
\* has totalMileage 0.
getOrCreateStravaBike(bk, uid, stravaBikeId) ==
    IF LoglynxBikeOf(bk, uid, stravaBikeId) # 0 THEN bk
    ELSE [bk EXCEPT ![FirstFree(bk)] = StravaBike(uid, stravaBikeId, 0)]

\* Step 2: getOrCreateStravaBike for each of the ids.
RECURSIVE MapStravaBikes(_, _, _, _)
MapStravaBikes(bk, uid, ids, i) ==
    IF i = 0 THEN bk
    ELSE getOrCreateStravaBike(MapStravaBikes(bk, uid, ids, i - 1), uid, ids[i])

\* Math.round(activity.distance / 1000)
MathRound(distance) == (distance + 500) \div 1000

NoBatch == [totalMileage |-> [i \in {} |-> 0], rides |-> {}, synced |-> 0,
            skipped |-> 0, mileageUpdated |-> 0]

(***************************************************************************)
(* The loop over the activities: the write batch after the first i of      *)
(* them.  An activity that is no ride, or whose stravaId a stored ride of  *)
(* the user has, is skipped.  The bike of a ride is read from the store    *)
(* (bk: the batch is not committed yet) and batch.update(bikeRef,          *)
(* {totalMileage: currentMileage + Math.round(distanceKm)}) is queued; of  *)
(* the updates queued for one document the last one sets the field.        *)
(***************************************************************************)
RECURSIVE SyncLoop(_, _, _, _, _)
SyncLoop(bk, stored, uid, acts, i) ==
    IF i = 0 THEN NoBatch
    ELSE LET batch == SyncLoop(bk, stored, uid, acts, i - 1)
             a == acts[i]
             matchedBikeId ==
                 IF Truthy(a.bike_id) THEN LoglynxBikeOf(bk, uid, a.bike_id) ELSE 0
             mileageAdded ==
                 /\ matchedBikeId # 0
                 /\ bk[matchedBikeId].exists
                 /\ bk[matchedBikeId].ownerUid = uid
         IN  IF a.type # "Ride" \/ <<uid, a.id>> \in stored
             THEN [batch EXCEPT !.skipped = @ + 1]
             ELSE [totalMileage |->
                      IF mileageAdded
                      THEN [b \in DOMAIN batch.totalMileage \cup {matchedBikeId} |->
                               IF b = matchedBikeId
                               THEN bk[b].totalMileage + MathRound(a.distance)
                               ELSE batch.totalMileage[b]]
                      ELSE batch.totalMileage,
                   rides |-> batch.rides \cup {a.id},
                   synced |-> batch.synced + 1,
                   skipped |-> batch.skipped,
                   mileageUpdated |->
                      batch.mileageUpdated + (IF mileageAdded THEN 1 ELSE 0)]

\* batch.commit(): the bikes collection with the queued updates.
CommitBatch(bk, batch) ==
    [i \in DOMAIN bk |->
        IF i \in DOMAIN batch.totalMileage
        THEN [bk[i] EXCEPT !.totalMileage = batch.totalMileage[i]]
        ELSE bk[i]]

\* The new bikes a sync needs have room in the model's bikes collection.
HasRoom(bk, uid, acts) ==
    Cardinality({k \in 1..Len(uniqueStravaBikeIds(acts, Len(acts))) :
                    LoglynxBikeOf(bk, uid, uniqueStravaBikeIds(acts, Len(acts))[k]) = 0})
        <= Cardinality(Free(bk))

SyncActivities(uids, lists) ==
    /\ callsLeft > 0
    /\ callsLeft' = callsLeft - 1
    /\ \E uid \in uids, acts \in lists :
        LET mapped == MapStravaBikes(bikes, uid, uniqueStravaBikeIds(acts, Len(acts)),
                                     Len(uniqueStravaBikeIds(acts, Len(acts))))
            batch == SyncLoop(mapped, activities, uid, acts, Len(acts))
        IN  /\ HasRoom(bikes, uid, acts)
            /\ bikes' = CommitBatch(mapped, batch)
            /\ activities' = activities \cup {<<uid, id>> : id \in batch.rides}
            /\ fnIn' = [fn |-> "syncActivities", uid |-> uid, activities |-> acts]
            /\ fnOut' = [value |-> [synced |-> batch.synced, skipped |-> batch.skipped,
                                    mileageUpdated |-> batch.mileageUpdated]]
    /\ UNCHANGED <<serviceLogs, components, users, user_badges, now, procVars,
                   lastClean, eventsLeft, http, unmet>>

\* batch.commit() fails: syncActivities throws.  The bikes created in step
\* 2 are stored; no mileage and no ride is.
SyncActivitiesFails(uids, lists) ==
    /\ callsLeft > 0
    /\ callsLeft' = callsLeft - 1
    /\ \E uid \in uids, acts \in lists :
        /\ HasRoom(bikes, uid, acts)
        /\ bikes' = MapStravaBikes(bikes, uid, uniqueStravaBikeIds(acts, Len(acts)),
                                   Len(uniqueStravaBikeIds(acts, Len(acts))))
        /\ fnIn' = [fn |-> "syncActivities", uid |-> uid, activities |-> acts]
        /\ fnOut' = [error |-> "Error", statusCode |-> 500,
                     message |-> "batch.commit failed"]
    /\ UNCHANGED <<serviceLogs, components, users, user_badges, now, procVars,
                   lastClean, eventsLeft, http, unmet, activities>>

(***************************************************************************)
(* Initial contents of the store.  Service logs with a userUid and account *)
(* records with a createdAt in milliseconds are documents of the same      *)
(* database that this backend did not write; the queries of getUserStats   *)
(* are written for them.                                                   *)
(***************************************************************************)
NoUsers == [u \in Users |-> NoDoc]
OnlyU1(doc) == [u \in Users |-> IF u = "u1" THEN doc ELSE NoDoc]

SeedEmpty ==
    [bikes |-> [i \in BikeIds |-> NoDoc],
     serviceLogs |-> [i \in LogIds |-> NoDoc],
     components |-> [i \in CompIds |-> NoDoc],
     users |-> OnlyU1(UserProfile(FirstInstant - 30 * DayMs + HalfDayMs))]

\* u1: {totalMileage: 100, bikeCount: 1, others 0}
SeedCentury ==
    [bikes |-> [i \in BikeIds |-> IF i = 1 THEN Bike("u1", 100)
                                  ELSE IF i = 2 THEN Bike("u2", 2000) ELSE NoDoc],
     serviceLogs |-> [i \in LogIds |-> NoDoc],
     components |-> [i \in CompIds |-> NoDoc],
     users |-> NoUsers]

\* u1: {totalMileage: 0, bikeCount: 3, others 0}
SeedCollector ==
    [bikes |-> [i \in BikeIds |-> IF i <= 3 THEN Bike("u1", 0) ELSE NoDoc],
     serviceLogs |-> [i \in LogIds |-> NoDoc],
     components |-> [i \in CompIds |-> NoDoc],
     users |-> NoUsers]

\* u1: one bike not ridden yet, one service log written by createServiceLog,
\* one component.
SeedWorkshop ==
    [bikes |-> [i \in BikeIds |-> IF i = 1 THEN Bike("u1", 0) ELSE NoDoc],
     serviceLogs |-> [i \in LogIds |-> IF i = 1 THEN ServiceLog(NoField, 1, 50) ELSE NoDoc],
     components |-> [i \in CompIds |-> IF i = 1 THEN Component("u1") ELSE NoDoc],
     users |-> NoUsers]

\* u1 meets every requirement of the catalog.
SeedRich ==
    [bikes |-> [i \in BikeIds |-> IF i = 1 THEN Bike("u1", 2000)
                                  ELSE IF i <= 3 THEN Bike("u1", 0) ELSE NoDoc],
     serviceLogs |-> [i \in LogIds |-> IF i <= 10 THEN ServiceLog("u1", 1, 50) ELSE NoDoc],
     components |-> [i \in CompIds |-> IF i <= 5 THEN Component("u1") ELSE NoDoc],
     users |-> OnlyU1(UserProfile(FirstInstant - 30 * DayMs))]

InitWith(seeds, nCalls, nEvents) ==
    /\ \E seed \in seeds :
        /\ bikes = seed.bikes
        /\ serviceLogs = seed.serviceLogs
        /\ components = seed.components
        /\ users = seed.users
    /\ user_badges = NoBadges
    /\ now = FirstInstant
    /\ pc = [p \in Procs |-> "idle"]
    /\ op = [p \in Procs |-> NoCall]
    /\ stats = [p \in Procs |-> ZeroStats]
    /\ idx = [p \in Procs |-> 0]
    /\ unlockedBadges = [p \in Procs |-> << >>]
    /\ userBadge = [p \in Procs |-> NoUserBadge]
    /\ ret = [p \in Procs |-> NoRet]
    /\ failed = [p \in Procs |-> {}]
    /\ startBadges = [p \in Procs |-> NoBadges]
    /\ mark = [p \in Procs |-> "plain"]
    /\ lastClean = NoClean
    /\ eventsLeft = nEvents
    /\ callsLeft = nCalls
    /\ fnIn = NoRet
    /\ fnOut = NoRet
    /\ http = [p \in Procs |-> NoHttp]
    /\ unmet = [p \in Procs |-> {}]
    /\ activities = {}

(***************************************************************************)
(* Spec: requests interleave at their awaits.                              *)
(***************************************************************************)
\* The callers of the interleaved requests and the ids they pass.
ConcurrentUsers == {"u1"}
ConcurrentIds == {"Century", "mystery_badge"}

Init == InitWith({SeedCentury, SeedWorkshop}, MaxCalls, MaxEvents)

Step(p, uids, badgeIds) ==
    \/ StartCheckAndUnlockBadges(p, uids)
    \/ StartGetBadgeProgress(p, uids)
    \/ StartUnlockBadge(p, uids, badgeIds)
    \/ StartGetUserBadge(p, uids, badgeIds)
    \/ StartGetUserBadges(p, uids)
    \/ StartGetAllBadges(p)
    \/ ReadBikes(p)
    \/ ReadServiceLogs(p)
    \/ ReadComponents(p)
    \/ ReadUserDoc(p)
    \/ LoopGet(p)
    \/ UnlockGet(p)
    \/ UnlockAdd(p)
    \/ GetQuery(p)
    \/ ListQuery(p)
    \/ AllBadges(p)
    \/ Return(p)

DataChange(uids) ==
    \/ CreateBike(uids)
    \/ UpdateBike(uids)
    \/ DeleteBike(uids)
    \/ IncrementMileage(uids)
    \/ CreateServiceLog(uids)
    \/ DeleteServiceLog(uids)
    \/ CreateComponent(uids)
    \/ DeleteComponent(uids)
    \/ CreateOrUpdateProfile(uids)

\* The updates of an account record that exists.
ProfileChange(uids) ==
    \/ UpdateProfile(uids)
    \/ UpdatePreferences(uids)

Next ==
    \/ \E p \in Procs : Step(p, ConcurrentUsers, ConcurrentIds)
    \/ DataChange(ConcurrentUsers)
    \/ Tick

Spec == Init /\ [][Next]_vars

(***************************************************************************)
(* SpecSeq: one request at a time, each served to its end before the next  *)
(* request, the next data change, or the next reading of the clock.        *)
(***************************************************************************)
InitSeq ==
    InitWith({SeedEmpty, SeedCentury, SeedCollector, SeedRich}, MaxCalls, MaxEvents)

Server == CHOOSE p \in Procs : \A q \in Procs : p <= q

NextSeq ==
    \/ Step(Server, Users, RequestIds)
    \/ AllIdle /\ DataChange(Users)
    \/ AllIdle /\ ProfileChange(Users)
    \/ AllIdle /\ Tick

SpecSeq == InitSeq /\ [][NextSeq]_vars

(***************************************************************************)
(* SpecStats: single requests against a store that does not change, each   *)
(* of whose operations may fail.                                           *)
(***************************************************************************)
InitStats == InitWith({SeedEmpty, SeedCentury, SeedCollector, SeedRich}, 1, MaxFailures)

NextStats == Step(Server, Users, RequestIds)

SpecStats == InitStats /\ [][NextStats]_vars

(***************************************************************************)
(* SpecHttp: HTTP requests to the badge endpoints, one at a time, against  *)
(* a store whose operations may fail.                                      *)
(***************************************************************************)
\* The paths requested below the mount point, and the bodies posted.
HttpPaths ==
    {<< >>} \cup UNION {{<< uid, "badges" >>, << uid, "badges", "check" >>,
                         << uid, "badges", "progress" >>, << uid, "badges", "Century" >>} :
                        uid \in Users}
HttpBodies == {Body(Undefined), Body(""), Body("Century"), Body("mystery_badge")}
HttpRequests ==
    {Request("GET", path, user, Body(Undefined)) : path \in HttpPaths, user \in Users}
        \cup {Request("POST", path, user, body) :
                 path \in HttpPaths, user \in Users, body \in HttpBodies}

InitHttp == InitWith({SeedEmpty, SeedCentury}, MaxCalls, MaxEvents)

NextHttp ==
    \/ HttpReceive(Server, HttpRequests)
    \/ ReadBikes(Server)
    \/ ReadServiceLogs(Server)
    \/ ReadComponents(Server)
    \/ ReadUserDoc(Server)
    \/ LoopGet(Server)
    \/ UnlockGet(Server)
    \/ UnlockAdd(Server)
    \/ GetQuery(Server)
    \/ ListQuery(Server)
    \/ HttpListAfterCheck(Server)
    \/ HttpRespond(Server)
    \/ HttpEnd(Server)

SpecHttp == InitHttp /\ [][NextHttp]_vars

(***************************************************************************)
(* SpecStrava: syncs of Strava activities, one after another.              *)
(***************************************************************************)
\* u1 has a bike mapped from the Strava bike b1, with 100 km, and a bike
\* that is not from Strava.
SeedStrava ==
    [bikes |-> [i \in BikeIds |-> IF i = 1 THEN StravaBike("u1", "b1", 100)
                                  ELSE IF i = 2 THEN Bike("u1", 50) ELSE NoDoc],
     serviceLogs |-> [i \in LogIds |-> NoDoc],
     components |-> [i \in CompIds |-> NoDoc],
     users |-> NoUsers]

\* What the Strava API returns: up to MaxRides activities with distinct ids.
ApiActivities ==
    {StravaActivity("a1", "Ride", "b1", 1600), StravaActivity("a2", "Ride", "b1", 1400),
     StravaActivity("a2", "Ride", "b2", 2500), StravaActivity("a3", "Run", Null, 5000),
     StravaActivity("a3", "Ride", Null, 1000)}
ActivityLists ==
    {acts \in UNION {[1..n -> ApiActivities] : n \in 1..MaxRides} :
        \A i, j \in 1..Len(acts) : i # j => acts[i].id # acts[j].id}

InitStrava == InitWith({SeedStrava, SeedEmpty}, MaxCalls, 0)

NextStrava ==
    \/ SyncActivities(Users, ActivityLists)
    \/ SyncActivitiesFails(Users, ActivityLists)

SpecStrava == InitStrava /\ [][NextStrava]_vars

(***************************************************************************)
(* SpecPure: the functions of the service applied to one input after       *)
(* another; fnIn is the input and fnOut what the function made of it.      *)
(***************************************************************************)
\* A badge that needs two statistics (the catalog has none), and the
\* requirement lists of the catalog.
TwoRequirements == << Req("total_mileage", 100), Req("bike_count", 2) >>
RequirementLists ==
    {BADGE_DEFINITIONS[i].requirements : i \in 1..CatalogSize} \cup {TwoRequirements}

\* Requirement lists with a type that is none of the six (the catalog has
\* none): alone, with value 0, and after or before a requirement that is met.
UnknownTypeLists ==
    {<< Req("ride_count", 1) >>, << Req("ride_count", 0) >>, << Req("", -1) >>,
     << Req("total_mileage", 0), Req("ride_count", 0) >>,
     << Req("ride_count", 0), Req("bike_count", 0) >>,
     << Req("Total_mileage", 0) >>}

StatsSamples ==
    {[ZeroStats EXCEPT !.totalMileage = m, !.bikeCount = b, !.serviceCount = c] :
        m \in {0, 29, 99, 100, 150}, b \in {0, 1, 2, 3}, c \in {0, 10}}

\* Catalog entries with two requirements (the catalog has none).
TwoRequirementBadges ==
    {[id |-> "two_requirements", requirements |-> TwoRequirements],
     [id |-> "two_requirements",
      requirements |-> << Req("bike_count", 2), Req("total_mileage", 100) >>]}

\* Catalog entries whose first requirement has value 0 (the catalog has none).
ZeroTargetBadges ==
    {[id |-> "zero_target", requirements |-> << Req("total_mileage", 0) >>],
     [id |-> "zero_target",
      requirements |-> << Req("bike_count", 0), Req("total_mileage", 100) >>]}

\* The ids a caller may pass: every alias key and every other id of the
\* model, in every letter case the model has.
LowerIds ==
    DOMAIN BADGE_ID_ALIASES \cup CatalogIds \cup {"mystery_badge", "constructor"}
PureIds == UNION {CaseVariants(id) : id \in LowerIds}

\* Contents of user_badges to look ids up in.
StoreSamples ==
    {NoBadges,
     (<<"u1", "first_ride">> :> << UserBadge(FirstInstant) >>)
       @@ (<<"u1", "marathon">> :> << UserBadge(FirstInstant + HalfDayMs) >>)
       @@ (<<"u2", "century">> :> << UserBadge(FirstInstant) >>)}

InitPure == InitWith({SeedEmpty}, 0, 0)

progVars ==
    <<storeVars, user_badges, now, procVars, lastClean, eventsLeft, callsLeft, http,
      unmet, activities>>

ApplyShouldUnlock ==
    /\ \E requirements \in RequirementLists, st \in StatsSamples :
        /\ fnIn' = [fn |-> "shouldUnlock", requirements |-> requirements, stats |-> st]
        /\ fnOut' = [value |-> shouldUnlock(requirements, st)]
    /\ UNCHANGED progVars

\* getUserBadge, with the value its query compares badgeId to.
ApplyGetUserBadge ==
    /\ \E ub \in StoreSamples, uid \in Users, badgeId \in PureIds :
        /\ fnIn' = [fn |-> "getUserBadge", ub |-> ub, uid |-> uid, badgeId |-> badgeId]
        /\ fnOut' = [queried |-> normalizeBadgeId(badgeId),
                     result |-> getUserBadge(ub, uid, badgeId, TRUE)]
    /\ UNCHANGED progVars

\* The requirement test of checkAndUnlockBadges on a badge one of whose
\* requirements has a type the switch has no case for.
ApplyEveryRequirement ==
    /\ \E requirements \in UnknownTypeLists, st \in StatsSamples :
        /\ fnIn' = [fn |-> "everyRequirement", requirements |-> requirements,
                    stats |-> st]
        /\ fnOut' = [value |-> shouldUnlock(requirements, st)]
    /\ UNCHANGED progVars

\* The list getBadgeProgress computes from the statistics.
ApplyGetBadgeProgress ==
    /\ \E st \in StatsSamples :
        /\ fnIn' = [fn |-> "getBadgeProgress", stats |-> st]
        /\ fnOut' = [value |-> ProgressFrom(1, st)]
    /\ UNCHANGED progVars

\* The body of its loop on an entry with two requirements.
ApplyProgressEntry ==
    /\ \E badgeDef \in TwoRequirementBadges, st \in StatsSamples :
        /\ fnIn' = [fn |-> "ProgressEntry", badgeDef |-> badgeDef, stats |-> st]
        /\ fnOut' = [value |-> ProgressEntry(badgeDef, st)]
    /\ UNCHANGED progVars

\* The body of its loop on an entry whose first requirement has value 0.
ApplyZeroTargetEntry ==
    /\ \E badgeDef \in ZeroTargetBadges, st \in StatsSamples :
        /\ fnIn' = [fn |-> "zeroTarget", badgeDef |-> badgeDef, stats |-> st]
        /\ fnOut' = [value |-> ProgressEntry(badgeDef, st)]
    /\ UNCHANGED progVars

\* normalizeBadgeId, and normalizeBadgeId again on what it returned (as
\* unlockBadge passes its normalizedId to getUserBadge, which normalizes).
ApplyNormalizeBadgeId ==
    /\ \E ub \in StoreSamples, uid \in Users, requestedId \in PureIds :
        /\ fnIn' = [fn |-> "normalizeBadgeId", ub |-> ub, uid |-> uid,
                    requestedId |-> requestedId]
        /\ fnOut' = [value |-> normalizeBadgeId(requestedId),
                     again |-> normalizeBadgeId(normalizeBadgeId(requestedId)),
                     single |-> getUserBadge(ub, uid, requestedId, TRUE),
                     double |-> getUserBadge(ub, uid, normalizeBadgeId(requestedId),
                                             TRUE)]
    /\ UNCHANGED progVars

NextPure ==
    \/ ApplyShouldUnlock
    \/ ApplyGetUserBadge
    \/ ApplyGetBadgeProgress
    \/ ApplyProgressEntry
    \/ ApplyEveryRequirement
    \/ ApplyZeroTargetEntry
    \/ ApplyNormalizeBadgeId

SpecPure == InitPure /\ [][NextPure]_vars

(***************************************************************************)
(* Properties.                                                             *)
(***************************************************************************)
IsApplication(fn) == "fn" \in DOMAIN fnIn /\ fnIn.fn = fn

\* A request of the given kind has its result.
Done(p, kind) == pc[p] = "done" /\ op[p].kind = kind

\* A request has its response.
Responded(p) == pc[p] = "responded"

\* A sequence without its element at pos.
Without(seq, pos) == SubSeq(seq, 1, pos - 1) \o SubSeq(seq, pos + 1, Len(seq))

\* The number of unlock records of uid.
RECURSIVE CountRecords(_, _, _)
CountRecords(ub, uid, keys) ==
    IF keys = {} THEN 0
    ELSE LET k == CHOOSE x \in keys : TRUE
         IN  (IF k[1] = uid THEN Len(ub[k]) ELSE 0) + CountRecords(ub, uid, keys \ {k})

(***************************************************************************)
(* C1: in every reachable state user_badges holds at most one unlock       *)
(* record per uid and canonical badge id, however concurrent               *)
(* checkAndUnlockBadges and unlockBadge calls of one user interleave at    *)
(* their store operations.                                                 *)
(***************************************************************************)
C1_AtMostOneRecord ==
    \A key \in DOMAIN user_badges : Len(user_badges[key]) <= 1

(***************************************************************************)
(* C2: a checkAndUnlockBadges(uid) call that directly follows a successful *)
(* checkAndUnlockBadges(uid) call (no other request, no data change, no    *)
(* clock tick and no store failure in or between the two) returns the      *)
(* empty list and leaves user_badges as it found it; and no user ever has  *)
(* more unlock records than the catalog has badges.                        *)
(***************************************************************************)
C2_SecondCheckUnlocksNothing ==
    /\ \A p \in Procs :
          (Done(p, "checkAndUnlockBadges") /\ mark[p] = "repeat") =>
              /\ ~IsError(ret[p])
              /\ ret[p].value = << >>
              /\ user_badges = startBadges[p]
    /\ \A uid \in Users :
          CountRecords(user_badges, uid, DOMAIN user_badges) <= CatalogSize

\* The second of two checks in a row has returned, for a user who holds a
\* record of every catalog badge.
C2_Witness ==
    \E p \in Procs :
        /\ Done(p, "checkAndUnlockBadges")
        /\ mark[p] = "repeat"
        /\ CountRecords(user_badges, op[p].uid, DOMAIN user_badges) = CatalogSize

(***************************************************************************)
(* C3: an unlock record that exists goes on existing: no step of any       *)
(* request and no change of bikes, service logs or components removes the  *)
(* record of a (uid, badgeId) pair.                                        *)
(***************************************************************************)
C3_UnlockIsOneWay ==
    [][\A key \in DOMAIN user_badges :
          Len(user_badges[key]) >= 1 =>
              /\ key \in DOMAIN user_badges'
              /\ Len(user_badges'[key]) >= 1]_vars

\* A check has run to its end on statistics below the threshold of a badge
\* the user had unlocked before the user's only bike was deleted; the
\* record is still there.
C3_Witness ==
    \E p \in Procs :
        /\ Done(p, "checkAndUnlockBadges")
        /\ ~IsError(ret[p])
        /\ ~bikes[1].exists /\ bikes[2].exists
        /\ stats[p].totalMileage = 0
        /\ <<op[p].uid, "century">> \in DOMAIN startBadges[p]
        /\ <<op[p].uid, "century">> \in DOMAIN user_badges

(***************************************************************************)
(* C4: every unlock record is stored with progress 100, and a step changes *)
(* user_badges only by adding one such record: the records already there   *)
(* keep their progress and their unlockedAt.                               *)
(***************************************************************************)
C4_RecordsNeverUpdated ==
    [][/\ \A key \in DOMAIN user_badges' :
             \A j \in 1..Len(user_badges'[key]) : user_badges'[key][j].progress = 100
       /\ \A key \in DOMAIN user_badges :
             /\ key \in DOMAIN user_badges'
             /\ \/ user_badges'[key] = user_badges[key]
                \/ \E pos \in 1..Len(user_badges'[key]) :
                      Without(user_badges'[key], pos) = user_badges[key]]_vars

\* unlockBadge has returned true for a badge that was unlocked at an
\* earlier instant: the record still has that instant as unlockedAt.
C4_Witness ==
    \E p \in Procs :
        /\ Done(p, "unlockBadge")
        /\ ~IsError(ret[p])
        /\ LET key == <<op[p].uid, normalizeBadgeId(op[p].badgeId)>>
           IN  /\ key \in DOMAIN startBadges[p]
               /\ user_badges[key][1].unlockedAt < now
               /\ user_badges[key][1].progress = 100

(***************************************************************************)
(* C5: a badge is unlocked exactly when every one of its requirements is   *)
(* met by the statistics (AND, not OR): the badge with requirements        *)
(* total_mileage >= 100 and bike_count >= 2 is not unlocked for            *)
(* {totalMileage: 150, bikeCount: 1} and is unlocked for                   *)
(* {totalMileage: 150, bikeCount: 2}.                                      *)
(***************************************************************************)
C5_AllRequirementsMet ==
    IsApplication("shouldUnlock") =>
        /\ fnOut.value =
              (\A i \in 1..Len(fnIn.requirements) :
                  fnIn.stats[StatField[fnIn.requirements[i].type]]
                      >= fnIn.requirements[i].value)
        /\ (/\ fnIn.requirements = TwoRequirements
            /\ fnIn.stats.totalMileage = 150) =>
                fnOut.value = (fnIn.stats.bikeCount >= 2)

\* The two-requirement badge, one requirement met and the other not: no unlock.
C5_Witness ==
    /\ IsApplication("shouldUnlock")
    /\ fnIn.requirements = TwoRequirements
    /\ fnIn.stats.totalMileage = 150
    /\ fnIn.stats.bikeCount = 1
    /\ fnOut.value = FALSE

(***************************************************************************)
(* C6: a checkAndUnlockBadges call in which no store operation fails       *)
(* returns, in catalog order, exactly the catalog badges that had no       *)
(* unlock record and whose requirements its statistics meet, and leaves    *)
(* user_badges with the records it found plus one record per returned      *)
(* badge.  With no prior records, {totalMileage: 100, bikeCount: 1, others *)
(* 0} returns [first_ride, century] and {totalMileage: 0, bikeCount: 3,    *)
(* others 0} returns [bike_collector].                                     *)
(***************************************************************************)
C6_ReturnsNewlyQualifying ==
    \A p \in Procs :
        (Done(p, "checkAndUnlockBadges") /\ failed[p] = {}) =>
            LET uid == op[p].uid
                Qualifies(b) ==
                    /\ <<uid, b.id>> \notin DOMAIN startBadges[p]
                    /\ \A i \in 1..Len(b.requirements) :
                          stats[p][StatField[b.requirements[i].type]]
                              >= b.requirements[i].value
                expected == SelectSeq(BADGE_DEFINITIONS, Qualifies)
                returned == [j \in 1..Len(ret[p].value) |-> ret[p].value[j].id]
                NoneBefore == \A key \in DOMAIN startBadges[p] : key[1] # uid
            IN  /\ ~IsError(ret[p])
                /\ returned = [j \in 1..Len(expected) |-> expected[j].id]
                /\ DOMAIN user_badges =
                      DOMAIN startBadges[p]
                          \cup {<<uid, returned[j]>> : j \in 1..Len(returned)}
                /\ \A key \in DOMAIN startBadges[p] :
                      user_badges[key] = startBadges[p][key]
                /\ \A j \in 1..Len(returned) : Len(user_badges[<<uid, returned[j]>>]) = 1
                /\ (NoneBefore /\ stats[p] = [ZeroStats EXCEPT !.totalMileage = 100,
                                                               !.bikeCount = 1]) =>
                        returned = << "first_ride", "century" >>
                /\ (NoneBefore /\ stats[p] = [ZeroStats EXCEPT !.bikeCount = 3]) =>
                        returned = << "bike_collector" >>

\* The first scenario: a user with 100 miles on one bike and no records.
C6_Witness ==
    \E p \in Procs :
        /\ Done(p, "checkAndUnlockBadges")
        /\ failed[p] = {}
        /\ startBadges[p] = NoBadges
        /\ stats[p] = [ZeroStats EXCEPT !.totalMileage = 100, !.bikeCount = 1]
        /\ Len(ret[p].value) = 2

C8_AliasOrLowerCase ==
    IsApplication("getUserBadge") =>
        LET lower == toLowerCase(fnIn.badgeId)
            key == <<fnIn.uid, lower>>
        IN  IF lower \in DOMAIN BADGE_ID_ALIASES
            THEN fnOut.result =
                    getUserBadge(fnIn.ub, fnIn.uid, BADGE_ID_ALIASES[lower], TRUE)
            ELSE /\ fnOut.queried = lower
                 /\ fnOut.result =
                        IF key \in DOMAIN fnIn.ub
                        THEN FoundBadge(lower, fnIn.ub[key][1])
                        ELSE NullBadge

(***************************************************************************)
(* C9: the badgeId of every unlock record is the id of a catalog badge,    *)
(* whatever id unlockBadge was called with (an alias, another letter case, *)
(* an id the catalog does not have).                                       *)
(***************************************************************************)
C9_StoredIdsAreCanonical ==
    \A key \in DOMAIN user_badges : key[2] \in CatalogIds

\* unlockBadge, called with the alias "first_steps", has created the record
\* of first_ride.
C9_Witness ==
    \E p \in Procs :
        /\ Done(p, "unlockBadge")
        /\ op[p].badgeId = "first_steps"
        /\ ~IsError(ret[p])
        /\ <<op[p].uid, "first_ride">> \in DOMAIN user_badges
        /\ <<op[p].uid, "first_ride">> \notin DOMAIN startBadges[p]
        /\ <<op[p].uid, "first_steps">> \notin DOMAIN user_badges

(***************************************************************************)
(* C10: every entry getBadgeProgress returns has a percentage from 0 to    *)
(* 100, and percentage 100 when current >= target.                         *)
(***************************************************************************)
C10_PercentageInRange ==
    \A p \in Procs :
        (Done(p, "getBadgeProgress") /\ ~IsError(ret[p])) =>
            \A j \in 1..Len(ret[p].value) :
                LET entry == ret[p].value[j]
                IN  /\ 0 <= entry.percentage
                    /\ entry.percentage <= 100
                    /\ entry.current >= entry.target => entry.percentage = 100

(***************************************************************************)
(* C11: unlockBadge called with an id that, after alias normalization, is  *)
(* no id of the catalog ends with the error 404 BADGE_NOT_FOUND for its    *)
(* caller and creates no unlock record.                                    *)
(***************************************************************************)
C11_UnknownBadgeIsNotFound ==
    \A p \in Procs :
        (/\ Done(p, "unlockBadge")
         /\ failed[p] = {}
         /\ normalizeBadgeId(op[p].badgeId)
                \notin CatalogIds \cup NonStrings \cup {TypeError}) =>
            /\ IsError(ret[p])
            /\ ret[p].statusCode = 404
            /\ ret[p].error = "BADGE_NOT_FOUND"
            /\ user_badges = startBadges[p]

(***************************************************************************)
(* C13: when a read or a write of user_badges fails in a                   *)
(* checkAndUnlockBadges or unlockBadge call, the step of the failure is    *)
(* the call's last (the operation is not tried again, and no other store   *)
(* operation follows), and the call ends with an error: it returns neither *)
(* true nor a list of unlocked badges, not even the badges it had unlocked *)
(* before the failure.                                                     *)
(***************************************************************************)
C13_StoreFailureSurfaces ==
    [][\A p \in Procs :
          (/\ op'[p].kind \in {"checkAndUnlockBadges", "unlockBadge"}
           /\ "user_badges" \in failed'[p]) =>
              /\ pc'[p] = "done"
              /\ IsError(ret'[p])
              /\ ret'[p].statusCode = 500
              /\ "user_badges" \notin failed[p] => user_badges' = user_badges]_vars

\* A check that had unlocked first_ride when the read of the next record
\* failed has ended with an error.
C13_Witness ==
    \E p \in Procs :
        /\ Done(p, "checkAndUnlockBadges")
        /\ "user_badges" \in failed[p]
        /\ Len(unlockedBadges[p]) >= 1
        /\ <<op[p].uid, "first_ride">> \in DOMAIN user_badges
        /\ IsError(ret[p])

(***************************************************************************)
(* C16: unlockBadge(uid, id), called when no other request runs and no     *)
(* store operation fails, for an id that normalizes to a catalog badge:    *)
(* with no record of the badge it adds exactly one, with unlockedAt = now  *)
(* and progress = 100, whatever the user's statistics are; with a record   *)
(* it returns true and leaves user_badges as it is.  Any number of such    *)
(* calls leaves exactly one record.                                        *)
(***************************************************************************)
C16_UnlockCreatesOnce ==
    \A p \in Procs :
        (/\ Done(p, "unlockBadge")
         /\ failed[p] = {}
         /\ mark[p] # "dirty"
         /\ normalizeBadgeId(op[p].badgeId) \in CatalogIds) =>
            LET key == <<op[p].uid, normalizeBadgeId(op[p].badgeId)>>
            IN  /\ ret[p] = Ok(TRUE)
                /\ key \in DOMAIN user_badges
                /\ Len(user_badges[key]) = 1
                /\ IF key \in DOMAIN startBadges[p]
                   THEN user_badges = startBadges[p]
                   ELSE /\ user_badges[key] = << [unlockedAt |-> now, progress |-> 100] >>
                        /\ DOMAIN user_badges = DOMAIN startBadges[p] \cup {key}
                        /\ \A k \in DOMAIN startBadges[p] :
                              user_badges[k] = startBadges[p][k]

\* The second unlockBadge of century in a row, for a user whose bikes have
\* no mileage at all, has returned: one record.
C16_Witness ==
    \E p \in Procs :
        /\ Done(p, "unlockBadge")
        /\ failed[p] = {}
        /\ mark[p] # "dirty"
        /\ ret[p] = Ok(TRUE)
        /\ normalizeBadgeId(op[p].badgeId) = "century"
        /\ <<op[p].uid, "century">> \in DOMAIN startBadges[p]
        /\ Len(user_badges[<<op[p].uid, "century">>]) = 1
        /\ SumTotalMileage(bikes, BikesOf(bikes, op[p].uid)) = 0

(***************************************************************************)
(* C17: getBadgeProgress returns one entry per catalog badge that has a    *)
(* requirement, in catalog order; the entry's target is the value of the   *)
(* badge's first requirement, its current the statistic that requirement's *)
(* type names, and its percentage min(100, floor(current / target * 100)); *)
(* the entry of a badge with two requirements is that of its first one.    *)
(***************************************************************************)
C17_ProgressOfFirstRequirement ==
    LET Expected(b, st) ==
            LET first == b.requirements[1]
                current == st[StatField[first.type]]
                percent == (current * 100) \div first.value
            IN  [badgeId |-> b.id, current |-> current, target |-> first.value,
                 percentage |-> IF percent < 100 THEN percent ELSE 100]
        HasRequirement(b) == Len(b.requirements) >= 1
        listed == SelectSeq(BADGE_DEFINITIONS, HasRequirement)
    IN  /\ IsApplication("getBadgeProgress") =>
              /\ Len(fnOut.value) = Len(listed)
              /\ \A j \in 1..Len(listed) :
                    fnOut.value[j] = Expected(listed[j], fnIn.stats)
        /\ IsApplication("ProgressEntry") =>
              fnOut.value = Expected(fnIn.badgeDef, fnIn.stats)

(***************************************************************************)
(* C18: the daysActive of getUserStats is the number of whole days (of     *)
(* DayMs) from the createdAt of the user's account record to now, rounded  *)
(* down; it is 0 when the record does not exist, has no createdAt, or its  *)
(* read failed.                                                            *)
(***************************************************************************)
C18_DaysActiveWholeDays ==
    \A p \in Procs :
        (/\ op[p].kind \in {"checkAndUnlockBadges", "getBadgeProgress"}
         /\ pc[p] \notin {"bikes", "serviceLogs", "components", "userDoc"}) =>
            LET userDoc == users[op[p].uid]
            IN  stats[p].daysActive =
                    IF \/ "users" \in failed[p]
                       \/ ~userDoc.exists
                       \/ "createdAt" \notin DOMAIN userDoc
                    THEN 0
                    ELSE (now - userDoc.createdAt) \div DayMs

(***************************************************************************)
(* C20: a getBadgeProgress call that directly follows a successful         *)
(* checkAndUnlockBadges call of the same user (no other request, no data   *)
(* change, no clock tick and no store failure in or between the two)       *)
(* reports percentage = 100 and current >= target for every badge the      *)
(* check returned as unlocked; with totalMileage 100 the entry of century  *)
(* is {badgeId: century, current: 100, target: 100, percentage: 100}.      *)
(***************************************************************************)
C20_UnlockedMeansFullProgress ==
    \A p \in Procs :
        (Done(p, "getBadgeProgress") /\ mark[p] = "repeat") =>
            /\ ~IsError(ret[p])
            /\ \A j \in 1..Len(lastClean.unlocked) :
                  \E i \in 1..Len(ret[p].value) :
                      /\ ret[p].value[i].badgeId = lastClean.unlocked[j]
                      /\ ret[p].value[i].percentage = 100
                      /\ ret[p].value[i].current >= ret[p].value[i].target
            /\ stats[p].totalMileage = 100 =>
                  \E i \in 1..Len(ret[p].value) :
                      ret[p].value[i] = [badgeId |-> "century", current |-> 100,
                                         target |-> 100, percentage |-> 100]

\* The scenario: the check has unlocked century at totalMileage 100 and the
\* progress call that follows it has returned.
C20_Witness ==
    \E p \in Procs :
        /\ Done(p, "getBadgeProgress")
        /\ mark[p] = "repeat"
        /\ stats[p].totalMileage = 100
        /\ \E j \in 1..Len(lastClean.unlocked) : lastClean.unlocked[j] = "century"
        /\ <<op[p].uid, "century">> \in DOMAIN user_badges

(***************************************************************************)
(* C12: POST /users/{uid}/badges by the owner with no badgeId in the body, *)
(* or an empty one, is answered 400 INVALID_INPUT; the service is not      *)
(* called and user_badges is unchanged.                                    *)
(***************************************************************************)
C12_MissingBadgeIdIsInvalidInput ==
    \A p \in Procs :
        LET req == http[p].req
        IN  (/\ Responded(p)
             /\ req.method = "POST"
             /\ req.path = << req.user, "badges" >>
             /\ req.body.badgeId \in {Undefined, ""}) =>
                /\ http[p].handler = "unlockBadge"
                /\ http[p].res.status = 400
                /\ http[p].res.error = "INVALID_INPUT"
                /\ op[p] = NoCall
                /\ user_badges = startBadges[p]

\* The owner's request with the empty badgeId has been answered 400.
C12_Witness ==
    \E p \in Procs :
        /\ Responded(p)
        /\ http[p].req = Request("POST", << "u1", "badges" >>, "u1", Body(""))
        /\ http[p].res.status = 400

(***************************************************************************)
(* C14: a request to a user-scoped badge endpoint (list badges, get badge, *)
(* unlock badge, check badges, badge progress) whose path uid is not the   *)
(* uid of the authenticated caller is answered 403 without a service call; *)
(* every service call a request makes is for the caller's own uid, and     *)
(* every change of user_badges is to the records of a user whose own       *)
(* request is being served.                                                *)
(***************************************************************************)
C14_OnlyOwnUid ==
    [][/\ \A p \in Procs :
             LET req == http'[p].req
             IN  /\ (http'[p].handler # "none" /\ op'[p].kind # "none") =>
                        op'[p].uid = req.user
                 /\ (/\ pc'[p] = "responded"
                     /\ http'[p].handler \notin {"none", "getAllBadges"}
                     /\ req.path[1] # req.user) =>
                        /\ http'[p].res.status = 403
                        /\ op'[p] = NoCall
                        /\ user_badges' = user_badges
       /\ \A key \in DOMAIN user_badges' :
             (key \notin DOMAIN user_badges \/ user_badges'[key] # user_badges[key]) =>
                \E p \in Procs : http[p].handler # "none" /\ http[p].req.user = key[1]
      ]_vars

\* u1 has asked to unlock a badge for u2 and has been answered 403; no
\* record was created.
C14_Witness ==
    \E p \in Procs :
        /\ Responded(p)
        /\ http[p].req = Request("POST", << "u2", "badges" >>, "u1", Body("Century"))
        /\ http[p].handler = "unlockBadge"
        /\ http[p].res.status = 403
        /\ user_badges = startBadges[p]

(***************************************************************************)
(* C15: GET /users/{uid}/badges/progress by the authenticated owner is     *)
(* given to the handler getBadgeProgress and, when no store operation      *)
(* fails, answered 200 with the progress list of all badges; the handler   *)
(* of /:uid/badges/:badgeId does not take it with badgeId = "progress".    *)
(***************************************************************************)
C15_ProgressRouteReached ==
    \A p \in Procs :
        LET req == http[p].req
        IN  (/\ Responded(p)
             /\ req.method = "GET"
             /\ req.path = << req.user, "badges", "progress" >>) =>
                /\ http[p].handler = "getBadgeProgress"
                /\ failed[p] = {} =>
                      /\ http[p].res.status = 200
                      /\ Len(http[p].res.body) = CatalogSize

(***************************************************************************)
(* C19: the handler of GET /users/{uid}/badges reads the unlock records    *)
(* only after its checkAndUnlockBadges call has returned or thrown.  When  *)
(* no store operation fails the response lists every catalog badge whose   *)
(* requirements the user's statistics meet; when the check throws, the     *)
(* request is still answered 200 with the records the read returns.        *)
(***************************************************************************)
C19_ListRunsCheckFirst ==
    \A p \in Procs :
        (/\ http[p].handler = "getUserBadges"
         /\ op[p].kind = "getUserBadges") =>
            /\ http[p].autoCheck # NoRet
            /\ Responded(p) =>
                  LET res == http[p].res
                      uid == op[p].uid
                  IN  /\ ~IsError(ret[p]) =>
                            /\ res.status = 200
                            /\ res.body = UserBadgesFrom(user_badges, uid, 1)
                      /\ failed[p] = {} =>
                            /\ ~IsError(http[p].autoCheck)
                            /\ res.status = 200
                            /\ \A i \in 1..CatalogSize :
                                  LET b == BADGE_DEFINITIONS[i]
                                  IN  (\A j \in 1..Len(b.requirements) :
                                          stats[p][StatField[b.requirements[j].type]]
                                              >= b.requirements[j].value) =>
                                      \E k \in 1..Len(res.body) : res.body[k].id = b.id

\* The check threw after it had unlocked first_ride; the response is 200
\* with that record.
C19_Witness ==
    \E p \in Procs :
        /\ Responded(p)
        /\ http[p].handler = "getUserBadges"
        /\ IsError(http[p].autoCheck)
        /\ http[p].res.status = 200
        /\ Len(http[p].res.body) = 1
        /\ http[p].res.body[1].id = "first_ride"

(***************************************************************************)
(* C21: when a checkAndUnlockBadges call in which no store operation fails *)
(* has its result, every catalog badge whose requirements the user's       *)
(* stored data met when the call started and at every instant since has an *)
(* unlock record, whatever else ran meanwhile.  A badge whose requirement  *)
(* came to be met after an earlier call had read the statistics is met     *)
(* throughout the next call, which therefore unlocks it.                   *)
(***************************************************************************)
C21_MetBadgesAreUnlocked ==
    \A p \in Procs :
        (Done(p, "checkAndUnlockBadges") /\ failed[p] = {}) =>
            /\ ~IsError(ret[p])
            /\ \A id \in CatalogIds \ unmet[p] :
                  <<op[p].uid, id>> \in DOMAIN user_badges

\* A check that read the mileage before the bike was ridden to 150 has
\* ended without unlocking century; the check that started after the
\* change has unlocked it.
C21_Witness ==
    \E p, q \in Procs :
        /\ Done(q, "checkAndUnlockBadges")
        /\ failed[q] = {}
        /\ stats[q].totalMileage = 0
        /\ ret[q] = Ok(<< >>)
        /\ "century" \in unmet[q]
        /\ Done(p, "checkAndUnlockBadges")
        /\ op[p].uid = op[q].uid
        /\ failed[p] = {}
        /\ "century" \notin unmet[p]
        /\ \E j \in 1..Len(ret[p].value) : ret[p].value[j].id = "century"
        /\ <<op[p].uid, "century">> \in DOMAIN user_badges

(***************************************************************************)
(* C22: a requirement whose type is none of total_mileage, bike_count,     *)
(* service_count, component_count, service_cost and days_active is not met *)
(* whatever the statistics and its value are, so the requirement test of   *)
(* checkAndUnlockBadges is false for a badge that has such a requirement   *)
(* and the badge is not unlocked.                                          *)
(***************************************************************************)
C22_UnknownTypeNeverMet ==
    IsApplication("everyRequirement") =>
        ((\E i \in 1..Len(fnIn.requirements) :
             fnIn.requirements[i].type \notin DOMAIN StatField)
            => fnOut.value = FALSE)

\* The unknown requirement has value 0 and follows a requirement the
\* statistics meet: the test is false.
C22_Witness ==
    /\ IsApplication("everyRequirement")
    /\ fnIn.requirements = << Req("total_mileage", 0), Req("ride_count", 0) >>
    /\ fnIn.stats.totalMileage = 150
    /\ fnOut.value = FALSE

C24_ReadsChangeNothing ==
    [][\A p \in Procs :
          LET kind == IF Idle(p) THEN op'[p].kind ELSE op[p].kind
          IN  (/\ pc'[p] # pc[p]
               /\ \/ kind \in {"getBadgeProgress", "getUserBadge", "getAllBadges"}
                  \/ pc[p] \in {"bikes", "serviceLogs", "components", "userDoc"}) =>
                  /\ user_badges' = user_badges
                  /\ bikes' = bikes
                  /\ serviceLogs' = serviceLogs
                  /\ components' = components
                  /\ users' = users]_vars

\* getUserBadge has failed, on a store that holds a bike, and getAllBadges
\* has returned the catalog.
C24_Witness ==
    \E p, q \in Procs :
        /\ Done(p, "getUserBadge")
        /\ IsError(ret[p])
        /\ "user_badges" \in failed[p]
        /\ \E i \in BikeIds : bikes[i].exists
        /\ Done(q, "getAllBadges")
        /\ ret[q] = Ok(BADGE_DEFINITIONS)

(***************************************************************************)
(* C25: two checkAndUnlockBadges invocations of one user, however they     *)
(* interleave, never both have the same badge in their lists of newly      *)
(* unlocked badges.                                                        *)
(***************************************************************************)
C25_ReportedByOneCheck ==
    \A p, q \in Procs :
        (/\ p # q
         /\ op[p].kind = "checkAndUnlockBadges"
         /\ op[q].kind = "checkAndUnlockBadges"
         /\ op[p].uid = op[q].uid) =>
            \A i \in 1..Len(unlockedBadges[p]), j \in 1..Len(unlockedBadges[q]) :
                unlockedBadges[p][i].id # unlockedBadges[q][j].id

(***************************************************************************)
(* C26: with nothing else running and no bike deleted under its logs, the  *)
(* serviceCount that getUserStats computes for a user is the number of the *)
(* service logs stored for the bikes the user owns, and totalServiceCost   *)
(* the sum of their costs: each createServiceLog of the user on an own     *)
(* bike adds one to the count and the log's cost to the sum.               *)
(***************************************************************************)
C26_ServiceLogsAreCounted ==
    \A p \in Procs :
        (/\ op[p].kind \in {"checkAndUnlockBadges", "getBadgeProgress"}
         /\ pc[p] \notin {"bikes", "serviceLogs"}
         /\ "service-logs" \notin failed[p]
         /\ mark[p] # "dirty"
         /\ \A i \in LogIds :
               serviceLogs[i].exists => bikes[serviceLogs[i].bikeId].exists) =>
            LET uid == op[p].uid
                logged == {i \in LogIds : /\ serviceLogs[i].exists
                                          /\ bikes[serviceLogs[i].bikeId].exists
                                          /\ bikes[serviceLogs[i].bikeId].ownerUid = uid}
            IN  /\ stats[p].serviceCount = Cardinality(logged)
                /\ stats[p].totalServiceCost = SumCost(serviceLogs, logged)

(***************************************************************************)
(* C27: the createdAt of an account record that exists is not changed by a *)
(* later createOrUpdateProfile (token exchange), updateProfile or          *)
(* updatePreferences, nor by any other step, so the whole days from        *)
(* createdAt to now never decrease.                                        *)
(***************************************************************************)
C27_CreatedAtIsKept ==
    [][\A uid \in Users :
          users[uid].exists =>
              /\ users'[uid].exists
              /\ users'[uid].createdAt = users[uid].createdAt
              /\ (now' - users'[uid].createdAt) \div DayMs
                    >= (now - users[uid].createdAt) \div DayMs]_vars

(***************************************************************************)
(* C28: normalizeBadgeId applied to what normalizeBadgeId returned gives   *)
(* that same id; every value of the alias table is the id of a catalog     *)
(* badge; and getUserBadge called with the normalized id (as unlockBadge   *)
(* calls it) returns what getUserBadge called with the id itself returns.  *)
(***************************************************************************)
C28_NormalizeIsIdempotent ==
    /\ \A key \in DOMAIN BADGE_ID_ALIASES : BADGE_ID_ALIASES[key] \in CatalogIds
    /\ IsApplication("normalizeBadgeId") =>
          /\ fnOut.again = fnOut.value
          /\ fnOut.double = fnOut.single

(***************************************************************************)
(* C29: a step changes user_badges only by adding a record whose uid is    *)
(* the uid of the checkAndUnlockBadges or unlockBadge call that takes the  *)
(* step; the records of every other user stay as they are.  The statistics *)
(* a call has read without a failure are those of the bikes and components *)
(* whose ownerUid is its uid, the service logs whose userUid is its uid and *)
(* the account record of its uid, and every badge a check returns has its  *)
(* requirements met by these.                                              *)
(***************************************************************************)
C29_OnlyOwnDataAndRecords ==
    [][/\ \A key \in DOMAIN user_badges' :
             (key \notin DOMAIN user_badges \/ user_badges'[key] # user_badges[key]) =>
                \E p \in Procs :
                    /\ op[p].kind \in {"checkAndUnlockBadges", "unlockBadge"}
                    /\ pc[p] = "unlockAdd"
                    /\ pc'[p] # pc[p]
                    /\ op[p].uid = key[1]
                    /\ \A other \in DOMAIN user_badges :
                          other[1] # key[1] =>
                              /\ other \in DOMAIN user_badges'
                              /\ user_badges'[other] = user_badges[other]
       /\ \A p \in Procs :
             (/\ op'[p].kind \in {"checkAndUnlockBadges", "getBadgeProgress"}
              /\ pc'[p] \notin {"bikes", "serviceLogs", "components", "userDoc"}
              /\ mark'[p] # "dirty") =>
                LET uid == op'[p].uid
                    own == [bikes |-> {i \in BikeIds : bikes'[i].exists
                                                         /\ bikes'[i].ownerUid = uid},
                            logs |-> {i \in LogIds : serviceLogs'[i].exists
                                                       /\ serviceLogs'[i].userUid = uid},
                            comps |-> {i \in CompIds : components'[i].exists
                                                         /\ components'[i].ownerUid = uid}]
                    ownStats ==
                        [totalMileage |-> SumTotalMileage(bikes', own.bikes),
                         bikeCount |-> Cardinality(own.bikes),
                         serviceCount |-> Cardinality(own.logs),
                         componentCount |-> Cardinality(own.comps),
                         totalServiceCost |-> SumCost(serviceLogs', own.logs),
                         daysActive |-> DaysActive(users'[uid], now')]
                IN  /\ stats'[p] = ownStats
                    /\ (pc'[p] = "done" /\ op'[p].kind = "checkAndUnlockBadges"
                            /\ ~IsError(ret'[p])) =>
                          \A j \in 1..Len(ret'[p].value) :
                              LET b == BADGE_DEFINITIONS[FindBadgeDef(ret'[p].value[j].id)]
                              IN  \A r \in 1..Len(b.requirements) :
                                     ownStats[StatField[b.requirements[r].type]]
                                         >= b.requirements[r].value
      ]_vars

\* The check of u1, who has 100 miles, has returned next to the records and
\* the 2000-mile bike of u2: u1 has century and not ultra_marathon.
C29_Witness ==
    \E p \in Procs :
        /\ Done(p, "checkAndUnlockBadges")
        /\ op[p].uid = "u1"
        /\ ~IsError(ret[p])
        /\ mark[p] # "dirty"
        /\ <<"u2", "ultra_marathon">> \in DOMAIN user_badges
        /\ <<"u1", "century">> \in DOMAIN user_badges
        /\ <<"u1", "ultra_marathon">> \notin DOMAIN user_badges
        /\ \A key \in DOMAIN startBadges[p] :
              key[1] = "u2" => user_badges[key] = startBadges[p][key]

(***************************************************************************)
(* C30: after a successful syncActivities(uid) the totalMileage of each    *)
(* bike of the user has increased by exactly the sum of the rounded        *)
(* kilometre distances of the rides newly stored in that sync that are     *)
(* mapped to that bike, also when several new rides belong to one bike,    *)
(* and a ride an earlier sync stored (same stravaId) adds nothing.         *)
(***************************************************************************)
\* The rounded kilometres of the first i returned activities that are rides
\* of the Strava bike, not stored before the sync.
RECURSIVE NewRideKm(_, _, _, _, _)
NewRideKm(acts, uid, stravaBikeId, stored, i) ==
    IF i = 0 THEN 0
    ELSE NewRideKm(acts, uid, stravaBikeId, stored, i - 1)
         + (IF /\ acts[i].type = "Ride"
               /\ acts[i].bike_id = stravaBikeId
               /\ <<uid, acts[i].id>> \notin stored
            THEN (acts[i].distance + 500) \div 1000
            ELSE 0)

C30_MileageGrowsBySumOfNewRides ==
    [][(/\ callsLeft' # callsLeft
        /\ fnIn'.fn = "syncActivities"
        /\ "value" \in DOMAIN fnOut')
       => \A b \in BikeIds :
            (bikes'[b].exists /\ bikes'[b].ownerUid = fnIn'.uid) =>
                bikes'[b].totalMileage
                  = (IF bikes[b].exists THEN bikes[b].totalMileage ELSE 0)
                    + (IF "stravaBikeId" \in DOMAIN bikes'[b]
                       THEN NewRideKm(fnIn'.activities, fnIn'.uid,
                                      bikes'[b].stravaBikeId, activities,
                                      Len(fnIn'.activities))
                       ELSE 0)]_vars

====
